---- MODULE Spec2Model ----
(***************************************************************************)
(* A model of the GitHub backup service: the backup Lambda                 *)
(* (backup_handler.py), the download API (api_handler.py), the archival    *)
(* Lambda (archival_handler.py) and the audit logger (audit_logger.py).    *)
(*                                                                         *)
(* Python strings are TLA+ strings: f-strings are concatenations, lower()  *)
(* is computed character by character and "x in s" is substring search.    *)
(* Python dicts are records whose DOMAIN is the set of keys present.       *)
(***************************************************************************)
EXTENDS Integers, Sequences, FiniteSets, TLC

(***************************************************************************)
(* Bounds of the model.                                                    *)
(***************************************************************************)
\* number of fragments an error text handed to categorize_error is built of
MaxFragments == 2
\* number of invocations of the backup Lambda
MaxBackups == 1
\* number of backups in a run of successive backups of one repository
MaxSuccessive == 2

(***************************************************************************)
(* Strings.                                                                *)
(***************************************************************************)
UpperChars == "ABCDEFGHIJKLMNOPQRSTUVWXYZ"
LowerChars == "abcdefghijklmnopqrstuvwxyz"

\* the characters of the model in ASCII order
AsciiOrder == " '()-./0123456789:ABCDEFGHIJKLMNOPQRSTUVWXYZ[]_abcdefghijklmnopqrstuvwxyz"

\* position of the character c in str, 0 when absent
IndexIn(c, str) ==
    LET at == {i \in 1..Len(str) : SubSeq(str, i, i) = c}
    IN  IF at = {} THEN 0 ELSE CHOOSE i \in at : \A j \in at : i <= j

\* str.lower() on one character
LowerChar(c) ==
    LET k == IndexIn(c, UpperChars)
    IN  IF k = 0 THEN c ELSE SubSeq(LowerChars, k, k)

RECURSIVE lower(_)
\* str.lower(), computed on the two halves of the string
lower(str) ==
    IF Len(str) = 0 THEN ""
    ELSE IF Len(str) = 1 THEN LowerChar(str)
    ELSE LET h == Len(str) \div 2
         IN  lower(SubSeq(str, 1, h)) \o lower(SubSeq(str, h + 1, Len(str)))

\* Python's "pat in str"
Contains(pat, str) ==
    \E i \in 1..(Len(str) - Len(pat) + 1) : SubSeq(str, i, i + Len(pat) - 1) = pat

\* a < b in Python: lexicographic order by character code
StrLess(a, b) ==
    LET n == IF Len(a) < Len(b) THEN Len(a) ELSE Len(b)
        diff == {i \in 1..n : SubSeq(a, i, i) # SubSeq(b, i, i)}
    IN  IF diff = {} THEN Len(a) < Len(b)
        ELSE LET k == CHOOSE i \in diff : \A j \in diff : i <= j
             IN  IndexIn(SubSeq(a, k, k), AsciiOrder) < IndexIn(SubSeq(b, k, k), AsciiOrder)

RECURSIVE Concat(_)
\* "".join(parts)
Concat(parts) ==
    IF parts = << >> THEN "" ELSE Head(parts) \o Concat(Tail(parts))

(***************************************************************************)
(* backup_handler.categorize_error                                         *)
(***************************************************************************)
Categories ==
    {"DISK_SPACE", "AUTHENTICATION", "REPOSITORY_ACCESS", "TIMEOUT", "NETWORK",
     "LAMBDA_LAYER", "GIT_MISSING", "MEMORY", "UNKNOWN"}

\* the mutant: the text is matched as it is, not lowered
categorize_error_case_sensitive(error_msg) ==
    IF Contains("no space left", error_msg) \/ Contains("insufficient disk space", error_msg)
      THEN "DISK_SPACE"
    ELSE IF Contains("authentication failed", error_msg) \/ Contains("permission denied", error_msg)
      THEN "AUTHENTICATION"
    ELSE "UNKNOWN"

categorize_error(error_msg) ==
    LET error_lower == lower(error_msg)
    IN  IF Contains("no space left", error_lower) \/ Contains("insufficient disk space", error_lower)
          THEN "DISK_SPACE"
        ELSE IF Contains("authentication failed", error_lower) \/ Contains("permission denied", error_lower)
          THEN "AUTHENTICATION"
        ELSE IF Contains("repository not found", error_lower) \/ Contains("not found", error_lower)
          THEN "REPOSITORY_ACCESS"
        ELSE IF Contains("timeout", error_lower) \/ Contains("timed out", error_lower)
          THEN "TIMEOUT"
        ELSE IF Contains("network", error_lower) \/ Contains("connection", error_lower)
                \/ Contains("dns", error_lower)
          THEN "NETWORK"
        ELSE IF Contains("libpcre2", error_lower) \/ Contains("shared libraries", error_lower)
          THEN "LAMBDA_LAYER"
        ELSE IF Contains("no such file or directory", error_lower) /\ Contains("git", error_lower)
          THEN "GIT_MISSING"
        ELSE IF Contains("memory", error_lower) \/ Contains("out of memory", error_lower)
          THEN "MEMORY"
        ELSE "UNKNOWN"

\* the pieces error texts are built of in the check of categorize_error
Fragments ==
    {"Authentication failed", "authentication failed", "AUTHENTICATION FAILED",
     "No space left on device", "no space left", "Insufficient disk space",
     "Permission denied", "Repository not found", "timed out", "Out of memory",
     "connection reset", "exit status 128", " for demo: ", "fatal: unable to access"}

ErrorTexts ==
    { Concat(parts) : parts \in UNION { [1..n -> Fragments] : n \in 0..MaxFragments } }

\* the substrings categorize_error looks for
KnownPatterns ==
    {"no space left", "insufficient disk space", "authentication failed", "permission denied",
     "repository not found", "not found", "timeout", "timed out", "network", "connection",
     "dns", "libpcre2", "shared libraries", "no such file or directory", "memory",
     "out of memory"}

(***************************************************************************)
(* The clock: minutes since 2025-01-01 00:00, local time.                  *)
(***************************************************************************)
\* the instants at which the handlers run and read the clock: 9 January
\* 10:05 and 23:59, 10 January 00:00 and 00:01
ClockInstants == {8 * 1440 + 605, 8 * 1440 + 1439, 9 * 1440, 9 * 1440 + 1}

\* "%02d"
Pad2(n) == IF n < 10 THEN "0" \o ToString(n) ELSE ToString(n)

\* datetime.now().strftime('%Y-%m-%d'), for the first two months of 2025
DateStr(c) ==
    LET d == (c \div 1440) + 1
    IN  IF d <= 31 THEN "2025-01-" \o Pad2(d) ELSE "2025-02-" \o Pad2(d - 31)

\* datetime.now().strftime('%H-%M')
TimeStr(c) == Pad2((c % 1440) \div 60) \o "-" \o Pad2(c % 60)

(***************************************************************************)
(* The events handed to the backup Lambda by the scheduler.                *)
(***************************************************************************)
RepoNames == {"demo", "big-repo"}

CloneUrl(name) == "https://github.com/acme/" \o name \o ".git"

\* the size in KB the discovery reports for a repository
SizeOf(name) == IF name = "big-repo" THEN 500000 ELSE 50000

BackupEvents ==
    { [name |-> n, clone_url |-> CloneUrl(n), archived |-> a, size |-> SizeOf(n)] :
        n \in RepoNames, a \in BOOLEAN }
    \cup { [clone_url |-> CloneUrl("demo"), archived |-> a, size |-> 50000] : a \in BOOLEAN }

\* dict.get(key, default)
Get(dict, key, default) == IF key \in DOMAIN dict THEN dict[key] ELSE default

(***************************************************************************)
(* The outcomes of the calls to the collaborators.  The empty string is a  *)
(* call that succeeded, any other string is str(e) of what it raised.      *)
(***************************************************************************)
\* os.environ['S3_BUCKET_NAME'], os.environ['GITHUB_TOKEN_SECRET_ARN']
ConfigOutcomes == {"", "'S3_BUCKET_NAME'"}

\* get_secret_value
SecretOutcomes ==
    {"", "An error occurred (AccessDeniedException) when calling the GetSecretValue operation: denied"}

\* the runs of the first lines of lambda_handler: the configuration, the
\* secret and the write of the started event
StartRuns ==
    { <<cfg, "", "ok">> : cfg \in ConfigOutcomes }
    \cup { <<"", secret, "ok">> : secret \in SecretOutcomes }
    \cup { <<"", "", audit>> : audit \in {"ok", "client_error", "raises"} }

\* a write of the audit logger: done, a ClientError (caught by the logger),
\* or any other exception (which the logger lets through)
AuditOutcomes == {"ok", "client_error", "raises"}

AuditRaised == "Could not connect to the endpoint URL"

\* git clone: "ok", "timeout" (TimeoutExpired) or the stderr of a failed run
GitOutcomes ==
    {"ok", "timeout",
     "fatal: Authentication failed for 'https://github.com/'",
     "remote: Repository not found.",
     "fatal: write error: No space left on device",
     "fatal: early EOF"}

\* the runs of download_repository: the shallow clone, the full clone made
\* when the shallow one exits non-zero, and git rev-parse
CloneRuns ==
    { <<shallow, "ok", valid>> : shallow \in {"ok", "timeout"}, valid \in BOOLEAN }
    \cup { <<shallow, full, TRUE>> : shallow \in GitOutcomes \ {"ok", "timeout"}, full \in GitOutcomes }

\* tarfile.open(...).add(...) in create_archive
ArchiveOutcomes == {"", "[Errno 28] No space left on device"}

\* s3_client.put_object in upload_to_s3
UploadOutcomes ==
    {"", "An error occurred (AccessDenied) when calling the PutObject operation: Access Denied",
     "Connect timeout on endpoint URL"}

\* os.path.getsize(archive_path) of a tar.gz that was written
ArchiveSizes == {2048}

(***************************************************************************)
(* backup_handler.download_repository: "" when the clone succeeded, else   *)
(* the text of the exception it raises.  shallow and full are the outcomes *)
(* of the two git clone runs, valid that of git rev-parse.                 *)
(***************************************************************************)
CloneErrorText(repo_info, stderr) ==
    IF Contains("authentication failed", lower(stderr))
      THEN "Authentication failed for " \o repo_info.name \o ": Check GitHub token permissions"
    ELSE IF Contains("repository not found", lower(stderr))
      THEN "Repository not found: " \o repo_info.name \o " (may be private or deleted)"
    ELSE IF Contains("no space left", lower(stderr))
      THEN "No space left on device while cloning " \o repo_info.name
    ELSE "Git clone failed for " \o repo_info.name \o ": " \o stderr

TimeoutText_as_a_failed_clone(repo_info) == "Git clone failed for " \o repo_info.name \o ": killed after 900 seconds"
TimeoutText(repo_info) ==
    "Git clone timed out after 15 minutes for repository: " \o repo_info.name

download_repository(repo_info, shallow, full, valid) ==
    LET verified ==
            IF valid THEN ""
            ELSE "Unexpected error cloning " \o repo_info.name
                 \o ": Cloned directory is not a valid Git repository: /tmp/" \o repo_info.name
    IN  IF SubSeq(repo_info.clone_url, 1, 19) # "https://github.com/"
          THEN "Unsupported clone URL format: " \o repo_info.clone_url
        ELSE IF shallow = "ok" THEN verified
        ELSE IF shallow = "timeout" THEN TimeoutText(repo_info)
        ELSE IF full = "ok" THEN verified
        ELSE IF full = "timeout" THEN TimeoutText(repo_info)
        ELSE CloneErrorText(repo_info, full)

\* the except clause of backup_single_repository: the text it re-raises
BackupErrorText(repo, error_msg) ==
    IF Contains("no space left", lower(error_msg)) \/ Contains("insufficient disk space", lower(error_msg))
      THEN "Ephemeral storage exhausted while backing up " \o repo.name
           \o ". Repository size: " \o ToString(repo.size) \o " KB"
    ELSE IF Contains("authentication failed", lower(error_msg))
      THEN "GitHub authentication failed for " \o repo.name \o ". Check token permissions."
    ELSE IF Contains("repository not found", lower(error_msg))
      THEN "Repository " \o repo.name \o " not found. It may be private, deleted, or renamed."
    ELSE IF Contains("timed out", lower(error_msg))
      THEN "Timeout while backing up " \o repo.name \o ". Repository may be too large."
    ELSE "Failed to backup " \o repo.name \o ": " \o error_msg

(***************************************************************************)
(* State.                                                                  *)
(***************************************************************************)
VARIABLES
    catInput,      \* the error text handed to categorize_error
    catResult,     \* the category it returned, "" before the call
    clock,         \* datetime.now(), in minutes
    pc,            \* where the backup Lambda is in lambda_handler
    event,         \* the event of the running invocation
    date_str,      \* lambda_handler's date_str
    temp_dir,      \* backup_single_repository's temp_dir
    error_msg,     \* str(e) of the exception on its way to a handler
    failedStep,    \* the step that raised in this invocation, "" if none
    result,        \* what backup_single_repository returned
    did,           \* the steps this invocation has performed
    outcome,       \* what lambda_handler returned, or [raised |-> str(e)]
    startedAt,     \* the clock when this invocation began
    invocations,   \* number of invocations begun
    completed,     \* the successful backups so far, in order of completion
    history,       \* table github-backup-repository-history
    s3,            \* the bucket: key -> object
    tmp,           \* the directories under /tmp
    downloads,     \* table github-backup-download-operations
    nextId,        \* the number of download operations created (uuid4)
    call,          \* the last call of the download API and what it did
    prev,          \* the call of the download API before the last
    apc,           \* where the archival Lambda is in archive_single_backup
    backup_info,   \* the backup handed to archive_single_backup
    vault_archive, \* archive_single_backup's archive_id
    archived,      \* what archive_single_backup returned
    before,        \* the bucket and the vault when the invocation began
    runs,          \* number of invocations of the archival Lambda begun
    vault,         \* the Glacier vault: the archives, in order of upload
    cloned,        \* the repo_info whose clone timeouts are derived
    timeouts,      \* the timeouts derived from it, << >> before
    creating,      \* the initiate_download calls that created their operation
    pollers,       \* the get_download_status calls under way
    todo,          \* the metadata keys that the Glacier cleanup has still to visit
    deleted_archives, \* cleanup_old_glacier_archives's deleted_archives
    errors,        \* cleanup_old_glacier_archives's errors
    gpc,           \* where the Glacier cleanup Lambda is
    entries,       \* the entries of the directory whose space is checked
    free_mb,       \* the free space of its file system, in MB
    space,         \* the last call of check_disk_space and what came of it
    repositories,  \* the list handed to backup_repositories
    left,          \* the repositories that its loop has still to visit
    results,       \* backup_repositories's results
    ran,           \* what download_repository ran and what it raised
    listed,        \* what list_backups_to_archive returned
    running,       \* the scratch directory of each backup that runs on the shared /tmp
    seconds        \* the second of the minute that datetime.now() is in

catVars == <<catInput, catResult>>

backupVars ==
    <<clock, pc, event, date_str, temp_dir, error_msg, failedStep, result, did, outcome,
      startedAt, invocations, completed, tmp>>

storeVars == <<history, s3>>

apiVars == <<downloads, nextId, call, prev>>

archiveVars == <<apc, backup_info, vault_archive, archived, before, runs, vault>>

cloneVars == <<cloned, timeouts>>

pollVars == <<creating, pollers>>

cleanupVars == <<todo, deleted_archives, errors, gpc>>

diskVars == <<entries, free_mb, space>>

batchVars == <<repositories, left, results>>

runVars == <<ran>>

listVars == <<listed>>

parallelVars == <<running, seconds>>

vars ==
    <<catVars, backupVars, storeVars, apiVars, archiveVars, cloneVars, pollVars, cleanupVars,
      diskVars, batchVars, runVars, listVars, parallelVars>>

NoEvent == [archived |-> FALSE]

CatIdle == catInput = "" /\ catResult = ""

BackupIdle ==
    /\ clock = 8 * 1440 + 605
    /\ pc = "idle"
    /\ event = NoEvent
    /\ date_str = ""
    /\ temp_dir = ""
    /\ error_msg = ""
    /\ failedStep = ""
    /\ result = [success |-> FALSE]
    /\ did = {}
    /\ outcome = [success |-> FALSE]
    /\ startedAt = 0
    /\ invocations = 0
    /\ completed = << >>
    /\ tmp = {}

StoreEmpty ==
    /\ history = << >>
    /\ s3 = << >>

NoCall == [op |-> "none"]

ApiIdle ==
    /\ downloads = << >>
    /\ nextId = 0
    /\ call = NoCall
    /\ prev = NoCall

ArchiveIdle ==
    /\ apc = "idle"
    /\ backup_info = [key |-> ""]
    /\ vault_archive = ""
    /\ archived = [success |-> FALSE]
    /\ before = [s3 |-> << >>, vault |-> << >>]
    /\ runs = 0
    /\ vault = << >>

CloneIdle ==
    /\ cloned = [name |-> ""]
    /\ timeouts = << >>

PollIdle ==
    /\ creating = {}
    /\ pollers = << >>

CleanupIdle ==
    /\ todo = << >>
    /\ deleted_archives = << >>
    /\ errors = << >>
    /\ gpc = "idle"

DiskIdle ==
    /\ entries = {}
    /\ free_mb = 0
    /\ space = [required_mb |-> 0]

BatchIdle ==
    /\ repositories = << >>
    /\ left = << >>
    /\ results = << >>

RunIdle == ran = [commands |-> << >>]

ListIdle == listed = [done |-> FALSE]

ParallelIdle == running = << >> /\ seconds = 0

\* the Lambdas that the specification at hand does not run
OthersIdle == CleanupIdle /\ DiskIdle /\ BatchIdle /\ RunIdle /\ ListIdle /\ ParallelIdle

(***************************************************************************)
(* categorize_error applied to a text.                                     *)
(***************************************************************************)
CatInit ==
    /\ catInput \in ErrorTexts
    /\ catResult = ""
    /\ BackupIdle
    /\ StoreEmpty
    /\ ApiIdle
    /\ ArchiveIdle
    /\ CloneIdle
    /\ PollIdle
    /\ OthersIdle

Categorize ==
    /\ catResult = ""
    /\ catResult' = categorize_error(catInput)
    /\ UNCHANGED <<listVars, parallelVars, catInput, cleanupVars, diskVars, batchVars, runVars, backupVars, storeVars, apiVars, archiveVars, cloneVars, pollVars>>

NextErrorText ==
    /\ catResult # ""
    /\ catInput' \in ErrorTexts
    /\ catResult' = ""
    /\ UNCHANGED <<listVars, parallelVars, backupVars, storeVars, apiVars, archiveVars, cloneVars, pollVars, cleanupVars,
                   diskVars, batchVars, runVars>>

CatNext == Categorize \/ NextErrorText

SpecCategorize == CatInit /\ [][CatNext]_vars

(***************************************************************************)
(* audit_logger.AuditLogger                                                *)
(***************************************************************************)
\* log_backup_event writes one item to the table github-backup-events, which
\* no handler of the model reads: the table is not part of the state.  The
\* call returns when the item is written and when put_item raises a
\* ClientError; anything else put_item raises leaves the call.
log_backup_event(res) == IF res = "raises" THEN "raises" ELSE "returns"

\* a table after put_item(Item=item) under the key k
PutItem(table, k, item) ==
    [x \in DOMAIN table \cup {k} |-> IF x = k THEN item ELSE table[x]]

\* log_repository_backup: the history table after the call
log_repository_backup(table, repository_name, backup_version, s3_key, size_bytes, storage_class, res) ==
    IF res = "ok"
      THEN PutItem(table, <<repository_name, backup_version>>,
                   [repository_name |-> repository_name, backup_version |-> backup_version,
                    s3_key |-> s3_key, size_bytes |-> size_bytes,
                    storage_class |-> storage_class])
    ELSE table

(***************************************************************************)
(* backup_handler.lambda_handler and backup_single_repository, one         *)
(* invocation at a time.                                                   *)
(***************************************************************************)
\* the clock moves; it is read by the next step of the handler
Tick ==
    /\ pc \in {"idle", "done", "bsr_upload", "lh_complete"}
    /\ clock' \in {c \in ClockInstants : c > clock}
    /\ UNCHANGED <<listVars, parallelVars, catVars, cleanupVars, diskVars, batchVars, runVars, cloneVars, pollVars, apiVars, archiveVars, pc, event, date_str, temp_dir, error_msg, failedStep, result, did,
                   outcome, startedAt, invocations, completed, tmp, storeVars>>

\* lines 23-79: configuration, secret, event check, the started event, the
\* archived test and the date
LH_Start(ev, cfg, secret, audit) ==
    LET step == IF cfg # "" THEN "config"
                ELSE IF secret # "" THEN "secret"
                ELSE IF ~({"name", "clone_url"} \subseteq DOMAIN ev) THEN "event"
                ELSE IF log_backup_event(audit) = "raises" THEN "audit"
                ELSE ""
        text == IF step = "config" THEN cfg
                ELSE IF step = "secret" THEN secret
                ELSE IF step = "event" THEN "Repository name and clone_url must be provided in event"
                ELSE AuditRaised
    IN  /\ pc \in {"idle", "done"}
        /\ invocations' = invocations + 1
        /\ event' = ev
        /\ startedAt' = clock
        /\ did' = {}
        /\ temp_dir' = ""
        /\ result' = [success |-> FALSE]
        /\ outcome' = [success |-> FALSE]
        /\ failedStep' = step
        /\ IF step # ""
             THEN pc' = "lh_except" /\ error_msg' = text /\ date_str' = ""
           ELSE IF Get(ev, "archived", FALSE)
             THEN pc' = "lh_skip" /\ error_msg' = "" /\ date_str' = ""
           ELSE pc' = "bsr_begin" /\ error_msg' = "" /\ date_str' = DateStr(clock)
        /\ UNCHANGED <<listVars, parallelVars, catVars, cleanupVars, diskVars, batchVars, runVars, cloneVars, pollVars, apiVars, archiveVars, clock, completed, tmp, storeVars>>

\* lines 61-75: the skipped event and the skipped outcome
LH_Skip(audit) ==
    /\ pc = "lh_skip"
    /\ IF log_backup_event(audit) = "raises"
         THEN /\ pc' = "lh_except"
              /\ error_msg' = AuditRaised
              /\ failedStep' = "audit"
              /\ UNCHANGED outcome
       ELSE /\ pc' = "done"
            /\ outcome' = [repository |-> event.name, success |-> FALSE, skipped |-> TRUE,
                           reason |-> "archived"]
            /\ UNCHANGED <<error_msg, failedStep>>
    /\ UNCHANGED <<listVars, parallelVars, catVars, cleanupVars, diskVars, batchVars, runVars, cloneVars, pollVars, apiVars, archiveVars, clock, event, date_str, temp_dir, result, did, startedAt,
                   invocations, completed, tmp, storeVars>>

\* lines 205-222: the scratch directory, the disk check (which never raises)
\* and the access validation
BSR_Begin(accessible) ==
    /\ pc = "bsr_begin"
    /\ temp_dir' = "/tmp/" \o event.name \o "_" \o ToString(clock * 60)
    /\ tmp' = tmp \cup {temp_dir'}
    /\ did' = did \cup {"scratch", "validate"}
    /\ IF accessible
         THEN pc' = "bsr_clone" /\ UNCHANGED <<error_msg, failedStep>>
       ELSE /\ pc' = "bsr_except"
            /\ failedStep' = "validate"
            /\ error_msg' = "Repository " \o event.name \o " is not accessible with current token"
    /\ UNCHANGED <<listVars, parallelVars, catVars, cleanupVars, diskVars, batchVars, runVars, cloneVars, pollVars, apiVars, archiveVars, clock, event, date_str, result, outcome, startedAt, invocations,
                   completed, storeVars>>

\* line 225: download_repository
BSR_Clone(shallow, full, valid) ==
    LET text == download_repository(event, shallow, full, valid)
    IN  /\ pc = "bsr_clone"
        /\ did' = did \cup {"clone"}
        /\ IF text = ""
             THEN pc' = "bsr_compress" /\ UNCHANGED <<error_msg, failedStep>>
           ELSE pc' = "bsr_except" /\ failedStep' = "clone" /\ error_msg' = text
        /\ UNCHANGED <<listVars, parallelVars, catVars, cleanupVars, diskVars, batchVars, runVars, cloneVars, pollVars, apiVars, archiveVars, clock, event, date_str, temp_dir, result, outcome, startedAt,
                       invocations, completed, tmp, storeVars>>

\* line 231: create_archive has returned, it has not raised
Archived_whatever_it_raised(res) == TRUE

Archived(res) == res = ""

\* lines 227-238: the disk check, create_archive and the removal of the clone
BSR_Compress(res) ==
    /\ pc = "bsr_compress"
    /\ did' = did \cup {"compress"} \cup (IF Archived(res) THEN {"remove_clone"} ELSE {})
    /\ IF Archived(res)
         THEN pc' = "bsr_upload" /\ UNCHANGED <<error_msg, failedStep>>
       ELSE pc' = "bsr_except" /\ failedStep' = "compress" /\ error_msg' = res
    /\ UNCHANGED <<listVars, parallelVars, catVars, cleanupVars, diskVars, batchVars, runVars, cloneVars, pollVars, apiVars, archiveVars, clock, event, date_str, temp_dir, result, outcome, startedAt,
                   invocations, completed, tmp, storeVars>>

\* the key of line 242
StorageKey_without_area(repo_name, date, time) ==
    repo_name \o "/" \o date \o "-" \o time \o ".tar.gz"

StorageKey(repo_name, date, time) ==
    "nightly/" \o repo_name \o "/" \o date \o "-" \o time \o ".tar.gz"

\* upload_to_s3: the bucket after put_object
upload_to_s3(bucket, key, size) ==
    PutItem(bucket, key, [size |-> size, storage_class |-> "STANDARD_IA", restore |-> "none"])

\* lines 285-292, the finally clause: what shutil.rmtree raises when it
\* cannot remove the scratch directory
RmtreeError == "[Errno 13] Permission denied: 'objects'"

\* what leaves the finally clause: the handler of line 291 logs what rmtree
\* raised
CleanupRaised_what_rmtree_raised(removed) == IF removed THEN "" ELSE RmtreeError

CleanupRaised(removed) == ""

\* lines 240-255 and the finally clause: the upload, the result and the
\* removal of the scratch directory (whose failure is only logged)
BSR_Upload(res, size, removed) ==
    LET s3_key == StorageKey(event.name, date_str, TimeStr(clock))
    IN  /\ pc = "bsr_upload"
        /\ did' = did \cup {"upload"} \cup (IF res = "" THEN {"cleanup"} ELSE {})
        /\ IF res = ""
             THEN /\ s3' = upload_to_s3(s3, s3_key, size)
                  /\ tmp' = IF removed THEN tmp \ {temp_dir} ELSE tmp
                  /\ IF CleanupRaised(removed) = ""
                       THEN /\ result' = [repository |-> event.name, success |-> TRUE,
                                          s3_key |-> s3_key, size_bytes |-> size]
                            /\ pc' = "lh_complete"
                            /\ UNCHANGED <<error_msg, failedStep>>
                     ELSE /\ pc' = "lh_except"
                          /\ failedStep' = "cleanup"
                          /\ error_msg' = CleanupRaised(removed)
                          /\ UNCHANGED result
           ELSE /\ pc' = "bsr_except"
                /\ failedStep' = "upload"
                /\ error_msg' = res
                /\ UNCHANGED <<s3, result, tmp>>
        /\ UNCHANGED <<listVars, parallelVars, catVars, cleanupVars, diskVars, batchVars, runVars, cloneVars, pollVars, apiVars, archiveVars, clock, event, date_str, temp_dir, outcome, startedAt,
                       invocations, completed, history>>

\* lines 257-292: the except clause re-raises with a new text, the finally
\* clause removes the scratch directory
BSR_Except(removed) ==
    /\ pc = "bsr_except"
    /\ error_msg' = IF CleanupRaised(removed) = "" THEN BackupErrorText(event, error_msg)
                    ELSE CleanupRaised(removed)
    /\ tmp' = IF removed THEN tmp \ {temp_dir} ELSE tmp
    /\ did' = did \cup {"cleanup"}
    /\ pc' = "lh_except"
    /\ UNCHANGED <<listVars, parallelVars, catVars, cleanupVars, diskVars, batchVars, runVars, cloneVars, pollVars, apiVars, archiveVars, clock, event, date_str, temp_dir, failedStep, result, outcome,
                   startedAt, invocations, completed, storeVars>>

\* lines 81-113: the completed event, the history record and the return
LH_Complete(audit, hist) ==
    LET version == "nightly/" \o date_str \o "-" \o TimeStr(clock)
    IN  /\ pc = "lh_complete"
        /\ IF log_backup_event(audit) = "raises" \/ hist = "raises"
             THEN /\ pc' = "lh_except"
                  /\ error_msg' = AuditRaised
                  /\ failedStep' = "audit"
                  /\ UNCHANGED <<date_str, temp_dir, result, outcome, completed, history>>
           ELSE /\ pc' = "done"
                /\ history' = log_repository_backup(history, event.name, version, result.s3_key,
                                                    result.size_bytes, "s3", hist)
                /\ outcome' = result
                /\ completed' = Append(completed,
                                       [repository |-> event.name, s3_key |-> result.s3_key,
                                        started |-> startedAt, finished |-> clock])
                /\ date_str' = ""
                /\ temp_dir' = ""
                /\ result' = [success |-> FALSE]
                /\ UNCHANGED <<error_msg, failedStep>>
        /\ UNCHANGED <<listVars, parallelVars, catVars, cleanupVars, diskVars, batchVars, runVars, cloneVars, pollVars, apiVars, archiveVars, clock, event, did, startedAt, invocations, tmp, s3>>

\* lines 115-147: the handler of lambda_handler; the failed event is written
\* inside the handler, so what that write raises leaves lambda_handler
LH_Except(audit) ==
    LET repo_name == Get(event, "name", "unknown")
        error_category == categorize_error(error_msg)
    IN  /\ pc = "lh_except"
        /\ pc' = "done"
        /\ outcome' = IF log_backup_event(audit) = "raises"
                        THEN [raised |-> AuditRaised]
                      ELSE [repository |-> repo_name, success |-> FALSE,
                            error |-> error_msg, error_category |-> error_category]
        /\ date_str' = ""
        /\ temp_dir' = ""
        /\ error_msg' = ""
        /\ result' = [success |-> FALSE]
        /\ UNCHANGED <<listVars, parallelVars, catVars, cleanupVars, diskVars, batchVars, runVars, cloneVars, pollVars, apiVars, archiveVars, clock, event, failedStep, did, startedAt, invocations,
                       completed, tmp, storeVars>>

BackupInit ==
    /\ CatIdle /\ BackupIdle /\ StoreEmpty /\ ApiIdle /\ ArchiveIdle /\ CloneIdle /\ PollIdle
    /\ OthersIdle

BackupNext ==
    \/ (pc = "done" => invocations < MaxBackups) /\ Tick
    \/ /\ invocations < MaxBackups
       /\ \E ev \in BackupEvents, run \in StartRuns : LH_Start(ev, run[1], run[2], run[3])
    \/ \E audit \in AuditOutcomes : LH_Skip(audit)
    \/ \E accessible \in BOOLEAN : BSR_Begin(accessible)
    \/ \E run \in CloneRuns : BSR_Clone(run[1], run[2], run[3])
    \/ \E res \in ArchiveOutcomes : BSR_Compress(res)
    \/ \E res \in UploadOutcomes, size \in ArchiveSizes, removed \in BOOLEAN :
          BSR_Upload(res, size, removed)
    \/ \E removed \in BOOLEAN : BSR_Except(removed)
    \/ \E audit \in AuditOutcomes, hist \in AuditOutcomes : LH_Complete(audit, hist)
    \/ \E audit \in AuditOutcomes : LH_Except(audit)

SpecBackup == BackupInit /\ [][BackupNext]_vars

\* successive backups of one repository, every step of which succeeds
SuccessiveNext ==
    \/ (pc = "done" => invocations < MaxSuccessive) /\ Tick
    \/ /\ invocations < MaxSuccessive
       /\ LH_Start([name |-> "demo", clone_url |-> CloneUrl("demo"), archived |-> FALSE,
                    size |-> SizeOf("demo")], "", "", "ok")
    \/ BSR_Begin(TRUE)
    \/ BSR_Clone("ok", "ok", TRUE)
    \/ BSR_Compress("")
    \/ \E size \in ArchiveSizes : BSR_Upload("", size, TRUE)
    \/ LH_Complete("ok", "ok")

SpecSuccessive == BackupInit /\ [][SuccessiveNext]_vars

(***************************************************************************)
(* Properties of the backup Lambda.                                        *)
(***************************************************************************)
\* the event is a repository snapshot: it has a name and a clone URL
IsSnapshot(ev) == {"name", "clone_url", "archived"} \subseteq DOMAIN ev

\* C1: for every snapshot with archived=true, lambda_handler returns an
\* outcome with skipped=true, and the invocation has validated no access,
\* cloned, compressed and uploaded nothing and created no scratch directory.
C1_ArchivedIsSkipped ==
    (pc = "done" /\ IsSnapshot(event) /\ event.archived)
        => /\ "skipped" \in DOMAIN outcome
           /\ outcome.skipped
           /\ did = {}

\* the outcome is a failed BackupOutcome: success=false, an error text and
\* an error category
IsFailedOutcome(o) ==
    /\ {"success", "error", "error_category"} \subseteq DOMAIN o
    /\ o.success = FALSE
    /\ o.error_category \in Categories

\* C2: whatever step of the backup raised, lambda_handler returns a failed
\* BackupOutcome: no exception leaves it.
C2_NoFailureEscapes ==
    (pc = "done" /\ failedStep # "") => IsFailedOutcome(outcome)

\* C3: of two successful backups of one repository, the second begun after
\* the first has finished, the second has the greater storage key.
C3_KeysIncrease ==
    \A i, j \in 1..Len(completed) :
        ( /\ i < j
          /\ completed[i].repository = completed[j].repository
          /\ completed[j].started > completed[i].finished )
            => StrLess(completed[i].s3_key, completed[j].s3_key)

(***************************************************************************)
(* Properties of categorize_error.                                         *)
(***************************************************************************)
\* the two characters are the same letter, whatever their case
SameLetter(a, b) ==
    \/ a = b
    \/ /\ IndexIn(a, UpperChars) # 0
       /\ IndexIn(a, UpperChars) = IndexIn(b, LowerChars)
    \/ /\ IndexIn(a, LowerChars) # 0
       /\ IndexIn(a, LowerChars) = IndexIn(b, UpperChars)

\* pat occurs in str, whatever the case of the letters
Mentions(str, pat) ==
    \E i \in 1..(Len(str) - Len(pat) + 1) :
        \A k \in 1..Len(pat) :
            SameLetter(SubSeq(str, i + k - 1, i + k - 1), SubSeq(pat, k, k))

MentionsDiskSpace(str) ==
    Mentions(str, "no space left") \/ Mentions(str, "insufficient disk space")

\* C4 as stated: a text containing "authentication failed" maps to
\* AUTHENTICATION, a text containing "no space left" to DISK_SPACE and a text
\* with none of the known patterns to UNKNOWN, whatever the case of the text.
C4_AsStated ==
    catResult # "" =>
        /\ catResult \in Categories
        /\ Mentions(catInput, "authentication failed") => catResult = "AUTHENTICATION"
        /\ Mentions(catInput, "no space left") => catResult = "DISK_SPACE"
        /\ (\A pat \in KnownPatterns : ~Mentions(catInput, pat)) => catResult = "UNKNOWN"

\* C4, amended: a text containing "authentication failed" and none of the
\* disk-space patterns maps to AUTHENTICATION; a text containing "no space
\* left" maps to DISK_SPACE; a text with none of the known patterns maps to
\* UNKNOWN; every text maps to one category, whatever its case.
C4_CategorizeError ==
    catResult # "" =>
        /\ catResult \in Categories
        /\ (Mentions(catInput, "authentication failed") /\ ~MentionsDiskSpace(catInput))
              => catResult = "AUTHENTICATION"
        /\ Mentions(catInput, "no space left") => catResult = "DISK_SPACE"
        /\ (\A pat \in KnownPatterns : ~Mentions(catInput, pat)) => catResult = "UNKNOWN"

\* an upper-case authentication failure has been categorized
C4_Witness ==
    /\ catResult = "AUTHENTICATION"
    /\ Contains("AUTHENTICATION FAILED", catInput)

(***************************************************************************)
(* The retrieval of a backup: api_handler.initiate_download and            *)
(* get_download_status, with the bucket and the tables they work on.       *)
(***************************************************************************)
MaxDownloads == 2

\* os.environ['S3_BUCKET_NAME']
BucketName == "github-backups"

\* str.split(sep) for a separator of one character
RECURSIVE split(_, _)
split(str, sep) ==
    LET at == {i \in 1..Len(str) : SubSeq(str, i, i) = sep}
    IN  IF at = {}
          THEN <<str>>
        ELSE LET i == CHOOSE x \in at : \A y \in at : x <= y
             IN  <<SubSeq(str, 1, i - 1)>> \o split(SubSeq(str, i + 1, Len(str)), sep)

\* the records of the history table the retrieval works on: a backup of
\* "demo" written by the backup Lambda (storage class 's3') and an older one
\* whose record carries the storage class 'glacier' (audit_logger.py:101)
HotVersion == "nightly/2025-01-08-10-05"
HotKey == StorageKey("demo", "2025-01-08", "10-05")
ColdVersion == "nightly/2024-11-02-10-05"
ColdKey == StorageKey("demo", "2024-11-02", "10-05")

HistoryRecords ==
    log_repository_backup(
        log_repository_backup(<< >>, "demo", HotVersion, HotKey, 2048, "s3", "ok"),
        "demo", ColdVersion, ColdKey, 2048, "glacier", "ok")

\* the object of the older backup in the bucket: in the class GLACIER with no
\* restore requested, with a restore going on, with a restored copy, or gone
RestoreStates == {"none", "ongoing", "restored"}

ColdObjects ==
    { PutItem(upload_to_s3(<< >>, HotKey, 2048), ColdKey,
              [size |-> 2048, storage_class |-> "GLACIER", restore |-> r]) : r \in RestoreStates }
    \cup { upload_to_s3(<< >>, HotKey, 2048) }

\* s3_client.head_object: the response carries the header Restore when a
\* restore of the object was requested
head_object(bucket, key) ==
    LET obj == bucket[key]
    IN  IF obj.restore = "ongoing"
          THEN [StorageClass |-> obj.storage_class, Restore |-> "ongoing-request=\"true\""]
        ELSE IF obj.restore = "restored"
          THEN [StorageClass |-> obj.storage_class,
                Restore |-> "ongoing-request=\"false\", expiry-date=\"Fri, 17 Jan 2025 00:00:00 GMT\""]
        ELSE [StorageClass |-> obj.storage_class]

\* s3_client.restore_object: "" and the bucket after the request, or the
\* ClientError of an object that is not in an archive class
InvalidObjectState ==
    "An error occurred (InvalidObjectState) when calling the RestoreObject operation: "
        \o "Restore is not allowed for the object's current storage class"

restore_object(bucket, key, restore_request) ==
    IF bucket[key].storage_class \notin {"GLACIER", "DEEP_ARCHIVE"}
      THEN [raised |-> InvalidObjectState, bucket |-> bucket]
    ELSE [raised |-> "",
          bucket |-> [bucket EXCEPT ![key] =
                        [size |-> @.size, storage_class |-> @.storage_class,
                         restore |-> IF @.restore = "none" THEN "ongoing" ELSE @.restore]]]

\* s3_client.generate_presigned_url('get_object', ...): the URL is signed
\* at the time of the call
generate_presigned_url(bucket_name, key, filename, expires_in, now) ==
    [Bucket |-> bucket_name, Key |-> key,
     ResponseContentDisposition |-> "attachment; filename=\"" \o filename \o "\"",
     ExpiresIn |-> expires_in, signed_at |-> now]

\* the 24 hours of timedelta(hours=24), in minutes
Hours24 == 24 * 60

\* create_download_operation: the item it writes
DownloadId_reused(n) == "download-1"

DownloadId(n) == "download-" \o ToString(n)

create_download_operation(table, download_id, repository_name, backup_version, user_id, download_type, source_location, now) ==
    PutItem(table, download_id,
            [download_id |-> download_id, repository_name |-> repository_name,
             backup_version |-> backup_version, user_id |-> user_id,
             download_type |-> download_type, source_location |-> source_location,
             status |-> "requested", created_at |-> now,
             expires_at |-> now + 30 * 24 * 60])

\* no details, no error
NoDetails == << >>

\* update_download_status: update_item sets the status and updated_at, the
\* details and the error only when they are given; it creates the item when
\* there is none
update_download_status(table, download_id, status, details, error, now) ==
    LET item == IF download_id \in DOMAIN table THEN table[download_id]
                ELSE [download_id |-> download_id]
        set == [status |-> status, updated_at |-> now]
               @@ (IF DOMAIN details # {} THEN [details |-> details] ELSE << >>)
               @@ (IF error # "" THEN [error |-> error] ELSE << >>)
    IN  PutItem(table, download_id, set @@ item)

\* what a handler did and what came of it: the table and the bucket after
\* it, its result or str(e) of what it raised, the number of its calls to
\* head_object, the restore requests and the URLs it issued, and the
\* statuses it wrote to the table
Done(table, bucket, returned, raised, heads, restores, urls, writes) ==
    [downloads |-> table, s3 |-> bucket, result |-> returned, raised |-> raised,
     heads |-> heads, restores |-> restores, urls |-> urls, writes |-> writes]

\* lines 509-517: the name of the downloaded file
DownloadFilename(s3_key) ==
    LET parts == split(s3_key, "/")
    IN  IF Len(parts) >= 2
          THEN (IF parts[1] \in {"nightly", "final"} THEN parts[2] ELSE parts[1]) \o ".tar.gz"
        ELSE s3_key

\* handle_s3_download
handle_s3_download(table, bucket, download_id, s3_key, now) ==
    LET filename == DownloadFilename(s3_key)
        download_url == generate_presigned_url(BucketName, s3_key, filename, 86400, now)
        updated == update_download_status(table, download_id, "completed",
                       [download_url |-> download_url, expires_at |-> now + Hours24], "", now)
    IN  Done(updated, bucket,
             [status |-> "completed", download_url |-> download_url, expires_in_hours |-> 24],
             "", 0, << >>, <<download_url>>, <<"completed">>)

\* lines 571 and 582: what the header Restore says
IsOngoing_never(restore_status) == FALSE

IsOngoing(restore_status) == Contains("ongoing-request=\"true\"", restore_status)

IsRestored_never(restore_status) == FALSE

IsRestored(restore_status) == Contains("ongoing-request=\"false\"", restore_status)

\* locals() of handle_glacier_download at line 598: its parameters and the
\* names it has assigned
GlacierLocals ==
    {"download_id", "archive_id", "repository_name", "s3_client", "bucket_name", "s3_key",
     "response", "restore_request"}

\* line 598
RetrievalTier(names, request_body) ==
    IF "request_body" \in names THEN Get(request_body, "retrieval_tier", "Standard")
    ELSE "Standard"

\* lines 610-615
completion_times ==
    [Expedited |-> "1-5 minutes", Standard |-> "3-5 hours", Bulk |-> "5-12 hours"]

\* handle_glacier_download; request_body is the body of the request that
\* initiate_download is serving, which is not handed to this function
handle_glacier_download(table, bucket, download_id, archive_id, repository_name, request_body, now) ==
    LET s3_key == archive_id
        Failed(error, restores) ==
            Done(update_download_status(table, download_id, "failed", NoDetails, error, now),
                 bucket, << >>, error, 1, restores, << >>, <<"failed">>)
    IN  IF s3_key \notin DOMAIN bucket
          THEN Failed("Object not found: " \o s3_key, << >>)
        ELSE
          LET response == head_object(bucket, s3_key)
              retrieval_tier == RetrievalTier(GlacierLocals, request_body)
              restore_request ==
                  [Days |-> 7,
                   Tier |-> IF retrieval_tier \in {"Expedited", "Standard", "Bulk"}
                              THEN retrieval_tier ELSE "Standard"]
              restored == restore_object(bucket, s3_key, restore_request)
              estimated_time == Get(completion_times, retrieval_tier, "3-5 hours")
          IN  IF "Restore" \in DOMAIN response /\ IsOngoing(response.Restore)
                THEN Done(update_download_status(table, download_id, "in_progress",
                              [restore_status |-> "already_in_progress",
                               estimated_completion |-> "3-5 hours"], "", now),
                          bucket,
                          [status |-> "in_progress", restore_status |-> "already_in_progress",
                           estimated_completion |-> "3-5 hours"],
                          "", 1, << >>, << >>, <<"in_progress">>)
              ELSE IF "Restore" \in DOMAIN response /\ IsRestored(response.Restore)
                THEN LET direct == handle_s3_download(table, bucket, download_id, s3_key, now)
                     IN  [direct EXCEPT !.heads = 1]
              ELSE IF restored.raised # ""
                THEN Failed(restored.raised, <<[Key |-> s3_key, RestoreRequest |-> restore_request]>>)
              ELSE Done(update_download_status(table, download_id, "in_progress",
                            [s3_key |-> s3_key, restore_tier |-> retrieval_tier,
                             estimated_completion |-> estimated_time, restore_days |-> 7],
                            "", now),
                        restored.bucket,
                        [status |-> "in_progress", restore_tier |-> retrieval_tier,
                         estimated_completion |-> estimated_time],
                        "", 1, <<[Key |-> s3_key, RestoreRequest |-> restore_request]>>,
                        << >>, <<"in_progress">>)

\* check_glacier_job_status: the result is the dict it returns
check_glacier_job_status(table, bucket, job_id, download_id, now) ==
    IF download_id \notin DOMAIN table
      THEN Done(table, bucket, [status |-> "failed", error |-> "Download operation not found"],
                "", 0, << >>, << >>, << >>)
    ELSE
      LET download_item == table[download_id]
          details == Get(download_item, "details", NoDetails)
          s3_key == IF Get(details, "s3_key", "") # "" THEN details.s3_key
                    ELSE Get(download_item, "source_location", "")
      IN  IF s3_key = ""
            THEN Done(table, bucket,
                      [status |-> "failed", error |-> "S3 key not found in download details"],
                      "", 0, << >>, << >>, << >>)
          ELSE IF s3_key \notin DOMAIN bucket
            THEN Done(table, bucket, [status |-> "failed", error |-> "Object not found"],
                      "", 1, << >>, << >>, << >>)
          ELSE
            LET response == head_object(bucket, s3_key)
                parts == split(s3_key, "/")
                download_url ==
                    generate_presigned_url(BucketName, s3_key, parts[Len(parts)], 86400, now)
            IN  IF "Restore" \notin DOMAIN response
                  THEN Done(table, bucket,
                            [status |-> "failed", error |-> "No restore information found"],
                            "", 1, << >>, << >>, << >>)
                ELSE IF IsRestored(response.Restore)
                  THEN Done(update_download_status(table, download_id, "completed",
                                [restore_completed |-> TRUE, completed_at |-> now,
                                 download_url |-> download_url,
                                 expires_at |-> now + Hours24], "", now),
                            bucket,
                            [status |-> "completed", download_url |-> download_url,
                             expires_in_hours |-> 24],
                            "", 1, << >>, <<download_url>>, <<"completed">>)
                ELSE Done(table, bucket, [status |-> "in_progress"], "", 1, << >>, << >>, << >>)

\* lines 684-686: the poll looks at the storage for an operation of the
\* delayed path that is in progress and carries a job id
ChecksRestore_of_every_delayed(download_item) ==
    Get(download_item, "download_type", "") = "glacier_retrieval"

ChecksRestore(download_item) ==
    /\ Get(download_item, "download_type", "") = "glacier_retrieval"
    /\ Get(download_item, "status", "") = "in_progress"
    /\ Get(Get(download_item, "details", NoDetails), "glacier_job_id", "") # ""

\* line 696: the body of the answer is the item
StatusBody_without_status(download_item) ==
    [x \in DOMAIN download_item \ {"status"} |-> download_item[x]]

StatusBody(download_item) == download_item

\* an answer of the API
Response(statusCode, body) == [statusCode |-> statusCode, body |-> body]

\* the call and what it did
Called(op, input, response, done) ==
    [op |-> op, input |-> input, response |-> response, heads |-> done.heads,
     restores |-> done.restores, urls |-> done.urls, writes |-> done.writes]

Nothing(table, bucket) == Done(table, bucket, << >>, "", 0, << >>, << >>, << >>)

\* get_download_status
GetDownloadStatus(download_id) ==
    LET download_item == downloads[download_id]
        checked == check_glacier_job_status(downloads, s3,
                       Get(Get(download_item, "details", NoDetails), "glacier_job_id", ""),
                       download_id, clock)
        done == IF download_id \in DOMAIN downloads /\ ChecksRestore(download_item)
                  THEN checked ELSE Nothing(downloads, s3)
        response ==
            IF download_id = ""
              THEN Response(400, [error |-> "Download ID is required"])
            ELSE IF download_id \notin DOMAIN downloads
              THEN Response(404, [error |-> "Download operation not found"])
            ELSE Response(200, StatusBody(done.result @@ download_item))
    IN  /\ downloads' = done.downloads
        /\ s3' = done.s3
        /\ prev' = call
        /\ call' = Called("status", download_id, response, done)
        /\ UNCHANGED <<listVars, parallelVars, catVars, cleanupVars, diskVars, batchVars, runVars, cloneVars, pollVars, backupVars, archiveVars, history, nextId>>

\* lines 446-451: the direct path for the storage class 's3', the delayed
\* path for every other
DownloadType_always_delayed(storage_class) == "glacier_retrieval"

DownloadType(storage_class) ==
    IF storage_class = "s3" THEN "s3_direct" ELSE "glacier_retrieval"

\* the bodies of the requests to initiate_download
Tiers == {"Expedited", "Standard", "Bulk"}

DownloadRequests ==
    { [repository_name |-> "demo", backup_version |-> v, user_id |-> "alice"] :
        v \in {HotVersion, ColdVersion, "nightly/2025-01-07-10-05"} }
    \cup { [repository_name |-> "demo", backup_version |-> ColdVersion, user_id |-> "alice",
            retrieval_tier |-> t] : t \in Tiers }
    \cup { [repository_name |-> "demo", backup_version |-> HotVersion],
           [repository_name |-> "demo", user_id |-> "alice"] }

\* initiate_download
InitiateDownload(request_body) ==
    LET repository_name == Get(request_body, "repository_name", "")
        backup_version == Get(request_body, "backup_version", "")
        user_id == Get(request_body, "user_id", "unknown")
        backup_item == history[<<repository_name, backup_version>>]
        storage_class == Get(backup_item, "storage_class", "s3")
        s3_key == Get(backup_item, "s3_key", "")
        download_type == DownloadType(storage_class)
        source_location == IF download_type = "s3_direct" THEN s3_key
                           ELSE Get(backup_item, "archive_id", s3_key)
        download_id == DownloadId(nextId + 1)
        created == create_download_operation(downloads, download_id, repository_name,
                       backup_version, user_id, download_type, source_location, clock)
        handled == IF download_type = "s3_direct"
                     THEN handle_s3_download(created, s3, download_id, s3_key, clock)
                   ELSE handle_glacier_download(created, s3, download_id, source_location,
                                                repository_name, request_body, clock)
        resolved == repository_name # "" /\ backup_version # ""
                    /\ <<repository_name, backup_version>> \in DOMAIN history
        done == IF resolved THEN [handled EXCEPT !.writes = <<"requested">> \o @]
                ELSE Nothing(downloads, s3)
        response ==
            IF repository_name = "" \/ backup_version = ""
              THEN Response(400, [error |-> "repository_name and backup_version are required"])
            ELSE IF ~resolved
              THEN Response(404, [error |-> "Backup not found"])
            ELSE IF handled.raised # ""
              THEN Response(500, [error |-> handled.raised])
            ELSE Response(200, [download_id |-> download_id, download_type |-> download_type,
                                status |-> Get(handled.result, "status", "requested"),
                                details |-> handled.result])
    IN  /\ nextId < MaxDownloads
        /\ nextId' = IF resolved THEN nextId + 1 ELSE nextId
        /\ downloads' = done.downloads
        /\ s3' = done.s3
        /\ prev' = call
        /\ call' = Called("initiate", request_body, response, done)
        /\ UNCHANGED <<listVars, parallelVars, catVars, cleanupVars, diskVars, batchVars, runVars, cloneVars, pollVars, backupVars, archiveVars, history>>

\* S3 finishes a restore
RestoreCompletes(key) ==
    /\ key \in DOMAIN s3
    /\ s3[key].restore = "ongoing"
    /\ s3' = [s3 EXCEPT ![key] = [size |-> @.size, storage_class |-> @.storage_class,
                                  restore |-> "restored"]]
    /\ UNCHANGED <<listVars, parallelVars, catVars, cleanupVars, diskVars, batchVars, runVars, cloneVars, pollVars, backupVars, archiveVars, apiVars, history>>

RetrievalInit ==
    /\ CatIdle
    /\ CloneIdle
    /\ PollIdle
    /\ OthersIdle
    /\ BackupIdle
    /\ ArchiveIdle
    /\ ApiIdle
    /\ history = HistoryRecords
    /\ s3 \in ColdObjects

RetrievalNext ==
    \/ Tick
    \/ \E request_body \in DownloadRequests : InitiateDownload(request_body)
    \/ \E download_id \in DOMAIN downloads \cup {"", DownloadId(0)} :
          GetDownloadStatus(download_id)
    \/ \E key \in DOMAIN s3 : RestoreCompletes(key)

SpecRetrieval == RetrievalInit /\ [][RetrievalNext]_vars

(***************************************************************************)
(* Properties of the retrieval.                                            *)
(***************************************************************************)
\* the request names a backup that the history table holds
Resolves(request_body) ==
    /\ {"repository_name", "backup_version"} \subseteq DOMAIN request_body
    /\ <<request_body.repository_name, request_body.backup_version>> \in DOMAIN history

StoredBackup(request_body) ==
    history[<<request_body.repository_name, request_body.backup_version>>]

\* the backup is in the hot tier, or in the cold tier
IsHot(request_body) ==
    Resolves(request_body) /\ StoredBackup(request_body).storage_class = "s3"

IsCold(request_body) ==
    Resolves(request_body) /\ StoredBackup(request_body).storage_class # "s3"

\* the call answered 200 with this status
Answered(c, status) ==
    /\ c.response.statusCode = 200
    /\ Get(c.response.body, "status", "") = status

\* the handle an answer of initiate_download carries, and the one a stored
\* operation carries
HandleOf(details) == Get(details, "download_url", [Key |-> ""])

\* C5: a poll of a completed operation answers with the stored status and
\* handle, does not look at the storage, issues no handle and leaves the
\* table as it is; when the call before it was a poll of the same operation
\* that answered completed, the two answers are the same.
C5_CompletedPollsAgree ==
    [][\A download_id \in DOMAIN downloads :
          (GetDownloadStatus(download_id)
           /\ Get(downloads[download_id], "status", "") = "completed")
          => /\ Answered(call', "completed")
             /\ HandleOf(Get(call'.response.body, "details", NoDetails))
                  = downloads[download_id].details.download_url
             /\ call'.heads = 0
             /\ call'.restores = << >>
             /\ call'.urls = << >>
             /\ call'.writes = << >>
             /\ downloads' = downloads
             /\ (call.op = "status" /\ call.input = download_id /\ Answered(call, "completed"))
                   => call'.response = call.response]_vars

\* two polls in a row of one operation, both answered completed
C5_Witness ==
    /\ prev.op = "status"
    /\ call.op = "status"
    /\ prev.input = call.input
    /\ Answered(prev, "completed")
    /\ Answered(call, "completed")
    /\ HandleOf(call.response.body.details).Key # ""

\* C6: a request for a cold backup whose object says it is restored takes
\* the new operation from requested to completed, with a handle in the
\* answer and on the operation, and sends no restore request.
C6_RestoredGoesDirect ==
    [][\A request_body \in DownloadRequests :
          (/\ InitiateDownload(request_body)
           /\ IsCold(request_body)
           /\ StoredBackup(request_body).s3_key \in DOMAIN s3
           /\ s3[StoredBackup(request_body).s3_key].restore = "restored")
          => LET download_id == DownloadId(nextId')
             IN  /\ Answered(call', "completed")
                 /\ call'.response.body.download_id = download_id
                 /\ HandleOf(call'.response.body.details).Key
                      = StoredBackup(request_body).s3_key
                 /\ download_id \notin DOMAIN downloads
                 /\ downloads'[download_id].status = "completed"
                 /\ downloads'[download_id].details.download_url
                      = call'.response.body.details.download_url
                 /\ call'.writes = <<"requested", "completed">>
                 /\ call'.restores = << >>
                 /\ s3' = s3]_vars

\* the answer to a request for the cold backup, whose object has a restored
\* copy, carries a handle
C6_Witness ==
    /\ call.op = "initiate"
    /\ IsCold(call.input)
    /\ ColdKey \in DOMAIN s3
    /\ s3[ColdKey].restore = "restored"
    /\ Answered(call, "completed")
    /\ call.response.body.download_type = "glacier_retrieval"
    /\ HandleOf(call.response.body.details).Key = ColdKey
    /\ call.restores = << >>

\* C8: a request for a cold backup whose object has no restore requested
\* sends the restore with the tier of the request (Standard when it names
\* none), stores the tier and its estimate on the operation and answers
\* in_progress with them: "5-12 hours" for the tier Bulk.
C8_CallersTier ==
    [][\A request_body \in DownloadRequests :
          (/\ InitiateDownload(request_body)
           /\ IsCold(request_body)
           /\ StoredBackup(request_body).s3_key \in DOMAIN s3
           /\ s3[StoredBackup(request_body).s3_key].restore = "none")
          => LET tier == Get(request_body, "retrieval_tier", "Standard")
                 stored == Get(downloads'[DownloadId(nextId')], "details", NoDetails)
                 body == call'.response.body
             IN  /\ Answered(call', "in_progress")
                 /\ call'.restores = <<[Key |-> StoredBackup(request_body).s3_key,
                                        RestoreRequest |-> [Days |-> 7, Tier |-> tier]]>>
                 /\ Get(body.details, "restore_tier", "") = tier
                 /\ Get(body.details, "estimated_completion", "") = completion_times[tier]
                 /\ Get(stored, "restore_tier", "") = tier
                 /\ Get(stored, "estimated_completion", "") = completion_times[tier]]_vars

\* C9: a poll of an operation of the delayed path that is in progress, while
\* the restore of its object is going on, leaves the table as it is and
\* answers in_progress.
C9_PendingPollChangesNothing ==
    [][\A download_id \in DOMAIN downloads :
          (/\ GetDownloadStatus(download_id)
           /\ downloads[download_id].download_type = "glacier_retrieval"
           /\ downloads[download_id].status = "in_progress"
           /\ downloads[download_id].source_location \in DOMAIN s3
           /\ s3[downloads[download_id].source_location].restore = "ongoing")
          => /\ downloads' = downloads
             /\ Answered(call', "in_progress")
             /\ call'.writes = << >>]_vars

\* a poll answered in_progress while the restore is going on
C9_Witness ==
    /\ call.op = "status"
    /\ call.input \in DOMAIN downloads
    /\ downloads[call.input].download_type = "glacier_retrieval"
    /\ downloads[call.input].status = "in_progress"
    /\ ColdKey \in DOMAIN s3
    /\ s3[ColdKey].restore = "ongoing"
    /\ Answered(call, "in_progress")

\* C10: a request for a hot backup issues a handle that expires after 24
\* hours, stores the handle and its expiry on the operation, which goes from
\* requested to completed, and answers completed.
C10_HotIsDirect ==
    (call.op = "initiate" /\ IsHot(call.input))
    => LET body == call.response.body
           download_url == HandleOf(Get(body, "details", NoDetails))
           stored == Get(downloads, Get(body, "download_id", ""), [status |-> ""])
       IN  /\ Answered(call, "completed")
           /\ body.download_type = "s3_direct"
           /\ download_url.Key = StoredBackup(call.input).s3_key
           /\ download_url.ExpiresIn = 24 * 60 * 60
           /\ body.details.expires_in_hours = 24
           /\ call.urls = <<download_url>>
           /\ stored.status = "completed"
           /\ stored.details.download_url = download_url
           /\ stored.details.expires_at = download_url.signed_at + Hours24
           /\ call.writes = <<"requested", "completed">>

\* a request for the hot backup was answered completed
C10_Witness ==
    /\ call.op = "initiate"
    /\ IsHot(call.input)
    /\ Answered(call, "completed")
    /\ HandleOf(call.response.body.details).Key = HotKey

(***************************************************************************)
(* The migration to the cold storage: archival_handler.                    *)
(* archive_single_backup, one invocation at a time.                        *)
(***************************************************************************)
MaxArchiveRuns == 3

\* the backups old enough to be archived, as list_backups_to_archive
\* describes them
OldKeys == {ColdKey, StorageKey("big-repo", "2024-11-02", "10-07")}

BackupInfos ==
    { [key |-> k, repository_name |-> split(k, "/")[2],
       backup_filename |-> split(k, "/")[3], size |-> 2048, age_days |-> 67] : k \in OldKeys }

OldBackups == [k \in OldKeys |-> [size |-> 2048, storage_class |-> "STANDARD_IA", restore |-> "none"]]

\* the outcomes of the calls to S3 and Glacier: "" or str(e)
DownloadOutcomes == {"", "Connection was closed before we received a valid response"}

VaultOutcomes ==
    {"", "An error occurred (ServiceUnavailableException) when calling the UploadArchive operation"}

PutOutcomes == {"", "An error occurred (SlowDown) when calling the PutObject operation"}

DeleteOutcomes == {"", "An error occurred (AccessDenied) when calling the DeleteObject operation"}

\* line 124: download_fileobj raises for a key the bucket does not hold
NotFound == "An error occurred (404) when calling the HeadObject operation: Not Found"

\* and for an object in an archive class that has no restored copy
NotRestored ==
    "An error occurred (InvalidObjectState) when calling the GetObject operation: "
        \o "The operation is not valid for the object's storage class"

download_fileobj_of_any_key(bucket, key, res) == res

download_fileobj(bucket, key, res) ==
    IF key \notin DOMAIN bucket THEN NotFound
    ELSE IF bucket[key].storage_class \in {"GLACIER", "DEEP_ARCHIVE"}
            /\ bucket[key].restore # "restored"
      THEN NotRestored
    ELSE res

\* line 145
MetadataKey_of_every_backup(backup_key) == "archived/metadata.json"

MetadataKey(backup_key) == "archived/" \o backup_key \o ".metadata.json"

\* lines 169-178: what the except clause returns
ArchiveFailed(info, error) ==
    [repository |-> Get(info, "repository_name", "unknown"), backup_key |-> info.key,
     backup_filename |-> Get(info, "backup_filename", ""), success |-> FALSE,
     error |-> error]

\* the archival Lambda is invoked with the action 'archive'
ASB_Start(info) ==
    /\ apc \in {"idle", "done"}
    /\ apc' = "download"
    /\ backup_info' = info
    /\ vault_archive' = ""
    /\ archived' = [success |-> FALSE]
    /\ before' = [s3 |-> s3, vault |-> vault]
    /\ runs' = runs + 1
    /\ UNCHANGED <<listVars, parallelVars, catVars, cleanupVars, diskVars, batchVars, runVars, cloneVars, pollVars, backupVars, apiVars, storeVars, vault>>

\* lines 122-125: the backup is read from the bucket
ASB_Download(res) ==
    LET raised == download_fileobj(s3, backup_info.key, res)
    IN  /\ apc = "download"
        /\ IF raised = ""
             THEN apc' = "upload" /\ UNCHANGED archived
           ELSE apc' = "done" /\ archived' = ArchiveFailed(backup_info, raised)
        /\ UNCHANGED <<listVars, parallelVars, catVars, cleanupVars, diskVars, batchVars, runVars, cloneVars, pollVars, backupVars, apiVars, storeVars, backup_info, vault_archive,
                       before, runs, vault>>

\* lines 127-134: the archive is uploaded to the vault
ASB_UploadArchive(res) ==
    LET archive_id == "archive-" \o ToString(Len(vault) + 1)
    IN  /\ apc = "upload"
        /\ IF res = ""
             THEN /\ vault' = Append(vault,
                                     [archiveId |-> archive_id,
                                      archiveDescription |-> "Archived backup: " \o backup_info.key,
                                      size |-> Get(s3, backup_info.key, [size |-> 0]).size])
                  /\ vault_archive' = archive_id
                  /\ apc' = "metadata"
                  /\ UNCHANGED archived
           ELSE /\ apc' = "done"
                /\ archived' = ArchiveFailed(backup_info, res)
                /\ UNCHANGED <<vault, vault_archive>>
        /\ UNCHANGED <<listVars, parallelVars, catVars, cleanupVars, diskVars, batchVars, runVars, cloneVars, pollVars, backupVars, apiVars, storeVars, backup_info, before, runs>>

\* lines 136-153: the metadata of the archive is written beside the backups
ASB_PutMetadata(res) ==
    LET metadata == [original_key |-> backup_info.key, archive_id |-> vault_archive,
                     archived_date |-> clock, original_size |-> backup_info.size]
    IN  /\ apc = "metadata"
        /\ IF res = ""
             THEN /\ s3' = PutItem(s3, MetadataKey(backup_info.key),
                                   [size |-> 1, storage_class |-> "STANDARD",
                                    restore |-> "none", body |-> metadata])
                  /\ apc' = "delete"
                  /\ UNCHANGED archived
           ELSE /\ apc' = "done"
                /\ archived' = ArchiveFailed(backup_info, res)
                /\ UNCHANGED s3
        /\ UNCHANGED <<listVars, parallelVars, catVars, cleanupVars, diskVars, batchVars, runVars, cloneVars, pollVars, backupVars, apiVars, history, backup_info, vault_archive,
                       before, runs, vault>>

\* lines 155-168: the backup is removed from the bucket
ASB_Delete(res) ==
    /\ apc = "delete"
    /\ apc' = "done"
    /\ IF res = ""
         THEN /\ s3' = [k \in DOMAIN s3 \ {backup_info.key} |-> s3[k]]
              /\ archived' = [repository |-> Get(backup_info, "repository_name", "unknown"),
                              backup_key |-> backup_info.key,
                              backup_filename |-> Get(backup_info, "backup_filename", ""),
                              archive_id |-> vault_archive,
                              size_bytes |-> Get(backup_info, "size", 0),
                              age_days |-> Get(backup_info, "age_days", 0),
                              success |-> TRUE]
       ELSE /\ archived' = ArchiveFailed(backup_info, res)
            /\ UNCHANGED s3
    /\ UNCHANGED <<listVars, parallelVars, catVars, cleanupVars, diskVars, batchVars, runVars, cloneVars, pollVars, backupVars, apiVars, history, backup_info, vault_archive,
                   before, runs, vault>>

ArchiveInit ==
    /\ CatIdle
    /\ BackupIdle
    /\ ApiIdle
    /\ ArchiveIdle
    /\ CloneIdle
    /\ PollIdle
    /\ OthersIdle
    /\ history = << >>
    /\ s3 = OldBackups

ArchiveNext ==
    \/ runs < MaxArchiveRuns /\ \E info \in BackupInfos : ASB_Start(info)
    \/ \E res \in DownloadOutcomes : ASB_Download(res)
    \/ \E res \in VaultOutcomes : ASB_UploadArchive(res)
    \/ \E res \in PutOutcomes : ASB_PutMetadata(res)
    \/ \E res \in DeleteOutcomes : ASB_Delete(res)

SpecArchive == ArchiveInit /\ [][ArchiveNext]_vars

(***************************************************************************)
(* Properties of the migration.                                            *)
(***************************************************************************)
\* the migration of the key is complete: an archive of it is in the vault,
\* its metadata is in the bucket and the backup is not
Migrated(bucket, archives, backup_key) ==
    /\ backup_key \notin DOMAIN bucket
    /\ MetadataKey(backup_key) \in DOMAIN bucket
    /\ \E i \in 1..Len(archives) :
          /\ archives[i].archiveDescription = "Archived backup: " \o backup_key
          /\ archives[i].archiveId = bucket[MetadataKey(backup_key)].body.archive_id

\* C7: an invocation of archive_single_backup for a key whose migration was
\* complete when it began uploads no archive, writes no metadata and deletes
\* no object: the vault and the bucket stay as they were.
C7_RemigrationIsNoOp ==
    (apc # "idle" /\ Migrated(before.s3, before.vault, backup_info.key))
    => /\ vault = before.vault
       /\ s3 = before.s3

\* an invocation for a migrated key has returned
C7_Witness ==
    /\ apc = "done"
    /\ Migrated(before.s3, before.vault, backup_info.key)
    /\ archived.success = FALSE
    /\ archived.error = NotFound

(***************************************************************************)
(* The timeouts of the clone: download_repository, lines 314-322.          *)
(***************************************************************************)
MaxSizeStep == 12

\* line 316: the threshold, in KB
SizeThreshold == 100000

\* the values a size can have in the JSON of the event: an int, a float
\* (twice its value, so that halves can be told), a bool, a str or null
PyInt(n) == [type |-> "int", value |-> n]
PyFloat(twice) == [type |-> "float", twice |-> twice]
PyBool(b) == [type |-> "bool", value |-> IF b THEN 1 ELSE 0]
PyStr(str) == [type |-> "str", text |-> str]
PyNone == [type |-> "NoneType"]

\* isinstance(x, (int, float)): bool is a subclass of int
IsIntOrFloat(x) == x.type \in {"int", "float", "bool"}

\* x > n for a number x and an int n
GreaterThan(x, n) == IF x.type = "float" THEN x.twice > 2 * n ELSE x.value > n

SizeHints ==
    { PyInt(n) : n \in {0, 50000, 500000} }
    \cup { PyInt(SizeThreshold + d) : d \in (0 - MaxSizeStep)..MaxSizeStep }
    \cup { PyFloat(2 * SizeThreshold + d) : d \in (0 - MaxSizeStep)..MaxSizeStep }
    \cup { PyBool(TRUE), PyStr("unknown"), PyStr("500000"), PyNone }

\* the repo_info handed to download_repository, with and without a size
RepoInfos ==
    { [name |-> n, clone_url |-> CloneUrl(n), size |-> x] : n \in RepoNames, x \in SizeHints }
    \cup { [name |-> n, clone_url |-> CloneUrl(n)] : n \in RepoNames }

\* lines 315-322: the timeouts of the shallow clone and of the fetch of the
\* full history, in seconds
CloneTimeouts_from_threshold(repo_info) ==
    LET repo_size_kb == Get(repo_info, "size", PyInt(0))
    IN  IF IsIntOrFloat(repo_size_kb) /\ GreaterThan(repo_size_kb, SizeThreshold - 1)
          THEN [shallow_timeout |-> 600, unshallow_timeout |-> 900]
        ELSE [shallow_timeout |-> 300, unshallow_timeout |-> 600]

CloneTimeouts(repo_info) ==
    LET repo_size_kb == Get(repo_info, "size", PyInt(0))
    IN  IF IsIntOrFloat(repo_size_kb) /\ GreaterThan(repo_size_kb, SizeThreshold)
          THEN [shallow_timeout |-> 600, unshallow_timeout |-> 900]
        ELSE [shallow_timeout |-> 300, unshallow_timeout |-> 600]

CloneInit ==
    /\ CatIdle
    /\ BackupIdle
    /\ StoreEmpty
    /\ ApiIdle
    /\ ArchiveIdle
    /\ PollIdle
    /\ OthersIdle
    /\ cloned \in RepoInfos
    /\ timeouts = << >>

DeriveTimeouts ==
    /\ DOMAIN timeouts = {}
    /\ timeouts' = CloneTimeouts(cloned)
    /\ UNCHANGED <<listVars, parallelVars, catVars, cleanupVars, diskVars, batchVars, runVars, backupVars, storeVars, apiVars, archiveVars, pollVars, cloned>>

NextRepoInfo ==
    /\ DOMAIN timeouts # {}
    /\ cloned' \in RepoInfos
    /\ timeouts' = << >>
    /\ UNCHANGED <<listVars, parallelVars, catVars, cleanupVars, diskVars, batchVars, runVars, backupVars, storeVars, apiVars, archiveVars, pollVars>>

CloneNext == DeriveTimeouts \/ NextRepoInfo

SpecClone == CloneInit /\ [][CloneNext]_vars

\* the size hint is a number above the threshold
AboveThreshold(repo_info) ==
    /\ "size" \in DOMAIN repo_info
    /\ \/ repo_info.size.type = "int" /\ repo_info.size.value >= SizeThreshold + 1
       \/ repo_info.size.type = "float" /\ repo_info.size.twice >= 2 * SizeThreshold + 1

\* C11: the timeouts depend on the size hint alone: 10 and 15 minutes for a
\* size above 100000 KB, 5 and 10 minutes for every other size, a missing
\* and a non-numeric one included; 500,000 KB gets 10 and 15 minutes.
C11_TimeoutsFromSize ==
    DOMAIN timeouts # {}
    => /\ AboveThreshold(cloned)
            => timeouts = [shallow_timeout |-> 10 * 60, unshallow_timeout |-> 15 * 60]
       /\ ~AboveThreshold(cloned)
            => timeouts = [shallow_timeout |-> 5 * 60, unshallow_timeout |-> 10 * 60]
       /\ ("size" \in DOMAIN cloned /\ cloned.size = PyInt(500000))
            => timeouts.shallow_timeout = 10 * 60 /\ timeouts.unshallow_timeout = 15 * 60

\* the timeouts of "big-repo", 500,000 KB, were derived
C11_Witness ==
    /\ cloned.name = "big-repo"
    /\ "size" \in DOMAIN cloned
    /\ cloned.size = PyInt(500000)
    /\ DOMAIN timeouts # {}
    /\ timeouts.shallow_timeout = 600

(***************************************************************************)
(* Properties of a backup that succeeded.                                  *)
(***************************************************************************)
\* <YYYY>-<MM>-<DD>-<HH>-<mm>.tar.gz
IsVersionedName(str) ==
    /\ Len(str) = 23
    /\ \A i \in 1..16 :
          IF i \in {5, 8, 11, 14} THEN SubSeq(str, i, i) = "-"
          ELSE \E d \in 0..9 : SubSeq(str, i, i) = ToString(d)
    /\ SubSeq(str, 17, 23) = ".tar.gz"

\* nightly/<repository>/<YYYY>-<MM>-<DD>-<HH>-<mm>.tar.gz
IsNightlyKey(key, repository) ==
    LET parts == split(key, "/")
    IN  /\ Len(parts) = 3
        /\ parts[1] = "nightly"
        /\ parts[2] = repository
        /\ IsVersionedName(parts[3])

\* C12: when no step of the backup of a repository that is not archived
\* failed, lambda_handler returns success=true with size_bytes > 0 and a key
\* nightly/<repository>/<YYYY>-<MM>-<DD>-<HH>-<mm>.tar.gz, and the bucket
\* holds the archive under that key in the class STANDARD_IA.
C12_SuccessfulBackup ==
    (pc = "done" /\ failedStep = "" /\ IsSnapshot(event) /\ ~event.archived)
    => /\ {"success", "s3_key", "size_bytes", "repository"} \subseteq DOMAIN outcome
       /\ outcome.success
       /\ outcome.repository = event.name
       /\ outcome.size_bytes > 0
       /\ IsNightlyKey(outcome.s3_key, event.name)
       /\ outcome.s3_key \in DOMAIN s3
       /\ s3[outcome.s3_key].storage_class = "STANDARD_IA"
       /\ s3[outcome.s3_key].size = outcome.size_bytes

\* the backup of "demo" has succeeded
C12_Witness ==
    /\ pc = "done"
    /\ failedStep = ""
    /\ IsSnapshot(event)
    /\ event.name = "demo"
    /\ ~event.archived
    /\ "upload" \in did
    /\ "s3_key" \in DOMAIN outcome
    /\ outcome.success

(***************************************************************************)
(* Properties of the polls of an operation in progress.                    *)
(***************************************************************************)
\* the operation was created by initiate_download on the delayed path and
\* is in progress
InProgressDelayed(download_id) ==
    /\ download_id \in DOMAIN downloads
    /\ downloads[download_id].download_type = "glacier_retrieval"
    /\ downloads[download_id].status = "in_progress"

\* C13: a poll of a delayed operation in progress, made when the object has
\* its restored copy, issues a handle, stores completed on the operation and
\* answers completed.
C13_RestoredPollCompletes ==
    [][\A download_id \in DOMAIN downloads :
          (/\ GetDownloadStatus(download_id)
           /\ InProgressDelayed(download_id)
           /\ downloads[download_id].source_location \in DOMAIN s3
           /\ s3[downloads[download_id].source_location].restore = "restored")
          => /\ downloads'[download_id].status = "completed"
             /\ Len(call'.urls) = 1
             /\ Answered(call', "completed")]_vars

(***************************************************************************)
(* The retrieval while the archival Lambda migrates the old backups.       *)
(***************************************************************************)
\* archive_single_backup run to its end with every call succeeding: the
\* archive is in the vault, its metadata in the bucket, the backup deleted
MigrateBackup(info) ==
    LET archive_id == "archive-" \o ToString(Len(vault) + 1)
        metadata == [original_key |-> info.key, archive_id |-> archive_id,
                     archived_date |-> clock, original_size |-> info.size]
        written == PutItem(s3, MetadataKey(info.key),
                           [size |-> 1, storage_class |-> "STANDARD", restore |-> "none",
                            body |-> metadata])
    IN  /\ download_fileobj(s3, info.key, "") = ""
        /\ vault' = Append(vault, [archiveId |-> archive_id,
                                   archiveDescription |-> "Archived backup: " \o info.key,
                                   size |-> s3[info.key].size])
        /\ s3' = [k \in DOMAIN written \ {info.key} |-> written[k]]
        /\ UNCHANGED <<listVars, parallelVars, catVars, cleanupVars, diskVars, batchVars, runVars, cloneVars, pollVars, backupVars, apiVars, history, apc,
                       backup_info, vault_archive, archived, before, runs>>

MigratingNext ==
    \/ RetrievalNext
    \/ \E info \in BackupInfos : MigrateBackup(info)

SpecMigrating == RetrievalInit /\ [][MigratingNext]_vars

\* C14: a poll of a delayed operation in progress whose object is not in
\* the bucket stores failed and an error on the operation and answers
\* failed.
C14_MissingPollFails ==
    [][\A download_id \in DOMAIN downloads :
          (/\ GetDownloadStatus(download_id)
           /\ InProgressDelayed(download_id)
           /\ downloads[download_id].source_location \notin DOMAIN s3)
          => /\ downloads'[download_id].status = "failed"
             /\ Get(downloads'[download_id], "error", "") # ""
             /\ Answered(call', "failed")]_vars

\* the statuses that an operation has held in a step, in their order: the
\* status it had before, and the statuses that the call wrote to it
StatusChain(download_id) ==
    (IF download_id \in DOMAIN downloads THEN <<downloads[download_id].status>> ELSE << >>)
    \o (IF download_id \notin DOMAIN downloads
           \/ downloads'[download_id] # downloads[download_id]
          THEN call'.writes ELSE << >>)

\* every operation starts as requested, and every change of its status in
\* a step is one of the moves
MovesOnlyBy(moves) ==
    \A download_id \in DOMAIN downloads' :
        LET chain == StatusChain(download_id)
        IN  /\ Len(chain) > 0
            /\ downloads'[download_id].status = chain[Len(chain)]
            /\ download_id \notin DOMAIN downloads => chain[1] = "requested"
            /\ \A i \in 1..(Len(chain) - 1) :
                  chain[i] = chain[i + 1] \/ <<chain[i], chain[i + 1]>> \in moves

ListedMoves ==
    {<<"requested", "in_progress">>, <<"in_progress", "completed">>,
     <<"in_progress", "failed">>, <<"requested", "completed">>}

\* C15 as stated: the stored status of an operation only moves requested ->
\* in_progress -> {completed, failed} or requested -> completed.
C15_OnlyListedMoves == [][DOMAIN downloads \subseteq DOMAIN downloads' /\ MovesOnlyBy(ListedMoves)]_vars

\* C15: the stored status of an operation only moves forward, requested ->
\* in_progress -> {completed, failed}, requested -> completed or requested ->
\* failed: never from completed or failed to another status, nor from
\* in_progress back to requested.
C15_StatusMovesForward ==
    [][/\ DOMAIN downloads \subseteq DOMAIN downloads'
       /\ MovesOnlyBy(ListedMoves \cup {<<"requested", "failed">>})]_vars

C15_Witness ==
    /\ call.op = "status"
    /\ prev.op = "initiate"
    /\ call.input \in DOMAIN downloads
    /\ downloads[call.input].status \in {"completed", "failed"}
    /\ \E download_id \in DOMAIN downloads : downloads[download_id].status = "in_progress"

(***************************************************************************)
(* Concurrent invocations of the API Lambda: every call of an invocation   *)
(* to DynamoDB or S3 is a step of its own.                                 *)
(***************************************************************************)
MaxPollers == 2

Pollers == 1..MaxPollers

\* initiate_download up to create_download_operation (lines 410-462): the
\* item is in the table as requested
InitiateCreate(request_body) ==
    LET repository_name == request_body.repository_name
        backup_version == request_body.backup_version
        backup_item == history[<<repository_name, backup_version>>]
        s3_key == Get(backup_item, "s3_key", "")
        download_type == DownloadType(Get(backup_item, "storage_class", "s3"))
        source_location == IF download_type = "s3_direct" THEN s3_key
                           ELSE Get(backup_item, "archive_id", s3_key)
        download_id == DownloadId(nextId + 1)
    IN  /\ nextId < MaxDownloads
        /\ Resolves(request_body)
        /\ nextId' = nextId + 1
        /\ downloads' = create_download_operation(downloads, download_id, repository_name,
                            backup_version, Get(request_body, "user_id", "unknown"),
                            download_type, source_location, clock)
        /\ creating' = creating \cup
               {[download_id |-> download_id, download_type |-> download_type,
                 s3_key |-> s3_key, source_location |-> source_location,
                 request_body |-> request_body, at |-> "handle"]}
        /\ UNCHANGED <<listVars, parallelVars, catVars, cleanupVars, diskVars, batchVars, runVars, cloneVars, backupVars, archiveVars, storeVars, call, prev,
                       pollers>>

\* the handler of the path up to its call of update_download_status: the
\* calls to S3 are made, the status, the details and the error to write
\* are decided
InitiateHandle(c) ==
    LET handled == IF c.download_type = "s3_direct"
                     THEN handle_s3_download(downloads, s3, c.download_id, c.s3_key, clock)
                   ELSE handle_glacier_download(downloads, s3, c.download_id,
                            c.source_location, c.request_body.repository_name,
                            c.request_body, clock)
        written == handled.downloads[c.download_id]
    IN  /\ c \in creating
        /\ c.at = "handle"
        /\ c.download_id \in DOMAIN downloads
        /\ s3' = handled.s3
        /\ creating' = (creating \ {c}) \cup
               {[download_id |-> c.download_id, at |-> "update",
                 status |-> handled.writes[Len(handled.writes)],
                 details |-> Get(written, "details", NoDetails),
                 error |-> handled.raised]}
        /\ UNCHANGED <<listVars, parallelVars, catVars, cleanupVars, diskVars, batchVars, runVars, cloneVars, backupVars, archiveVars, apiVars, history, pollers>>

\* the update_item of the handler, and the return of initiate_download
InitiateUpdate(c) ==
    /\ c \in creating
    /\ c.at = "update"
    /\ downloads' = update_download_status(downloads, c.download_id, c.status, c.details,
                                           c.error, clock)
    /\ creating' = creating \ {c}
    /\ UNCHANGED <<listVars, parallelVars, catVars, cleanupVars, diskVars, batchVars, runVars, cloneVars, backupVars, archiveVars, storeVars, nextId, call, prev,
                   pollers>>

\* get_download_status up to line 682: the poll has read the item
PollRead(p, download_id) ==
    /\ p \in Pollers \ DOMAIN pollers
    /\ download_id \in DOMAIN downloads
    /\ pollers' = pollers @@
           (p :> [download_id |-> download_id, download_item |-> downloads[download_id],
                  at |-> IF ChecksRestore(downloads[download_id]) THEN "get_item"
                         ELSE "return"])
    /\ UNCHANGED <<listVars, parallelVars, catVars, cleanupVars, diskVars, batchVars, runVars, cloneVars, backupVars, archiveVars, storeVars, apiVars, creating>>

\* the next call of the poll: the get_item, the head_object and the
\* update_item of check_glacier_job_status, or the return of the answer
PollStep(p) ==
    LET poll == pollers[p]
        At(at) == [pollers EXCEPT ![p].at = at]
        Checked(item) == check_glacier_job_status(PutItem(downloads, poll.download_id, item),
                             s3, "", poll.download_id, clock)
        details == Get(poll.download_item, "details", NoDetails)
        s3_key == IF Get(details, "s3_key", "") # "" THEN details.s3_key
                  ELSE Get(poll.download_item, "source_location", "")
    IN  /\ p \in DOMAIN pollers
        /\ IF poll.at = "get_item"
             THEN /\ pollers' =
                        IF poll.download_id \notin DOMAIN downloads THEN At("return")
                        ELSE [pollers EXCEPT ![p] = [download_id |-> poll.download_id,
                                                     download_item |-> downloads[poll.download_id],
                                                     at |-> "head_object"]]
                  /\ UNCHANGED downloads
           ELSE IF poll.at = "head_object"
             THEN /\ pollers' = At(IF Checked(poll.download_item).writes # << >>
                                     THEN "update_item" ELSE "return")
                  /\ UNCHANGED downloads
           ELSE IF poll.at = "update_item"
             THEN /\ downloads' =
                        update_download_status(downloads, poll.download_id, "completed",
                            [restore_completed |-> TRUE, completed_at |-> clock,
                             download_url |-> generate_presigned_url(BucketName, s3_key,
                                 split(s3_key, "/")[Len(split(s3_key, "/"))], 86400, clock),
                             expires_at |-> clock + Hours24], "", clock)
                  /\ pollers' = At("return")
           ELSE /\ pollers' = [q \in DOMAIN pollers \ {p} |-> pollers[q]]
                /\ UNCHANGED downloads
        /\ UNCHANGED <<listVars, parallelVars, catVars, cleanupVars, diskVars, batchVars, runVars, cloneVars, backupVars, archiveVars, storeVars, nextId, call,
                       prev, creating>>

ConcurrentNext ==
    \/ \E request_body \in DownloadRequests : InitiateCreate(request_body)
    \/ \E c \in creating : InitiateHandle(c)
    \/ \E c \in creating : InitiateUpdate(c)
    \/ \E p \in Pollers, download_id \in DOMAIN downloads : PollRead(p, download_id)
    \/ \E p \in DOMAIN pollers : PollStep(p)
    \/ \E key \in DOMAIN s3 : RestoreCompletes(key)

SpecConcurrent == RetrievalInit /\ [][ConcurrentNext]_vars

\* the place of a status in the order requested, in_progress, {completed,
\* failed}
StatusRank(status) ==
    IF status = "requested" THEN 0 ELSE IF status = "in_progress" THEN 1 ELSE 2

GetItemErrors ==
    {"An error occurred (ProvisionedThroughputExceededException) when calling the GetItem "
         \o "operation: The level of configured provisioned throughput for the table was "
         \o "exceeded"}

\* get_download_status when get_item (line 673) raises: the handler at lines
\* 700-706 answers 500 with str(e)
GetDownloadStatusFailing(download_id, error) ==
    /\ download_id \in DOMAIN downloads
    /\ prev' = call
    /\ call' = Called("status", download_id, Response(500, [error |-> error]),
                      Nothing(downloads, s3))
    /\ UNCHANGED <<listVars, parallelVars, catVars, cleanupVars, diskVars, batchVars, runVars, cloneVars, pollVars, backupVars, archiveVars, storeVars,
                   downloads, nextId>>

PollFaultNext ==
    \/ RetrievalNext
    \/ \E download_id \in DOMAIN downloads, error \in GetItemErrors :
          GetDownloadStatusFailing(download_id, error)

SpecPollFaults == RetrievalInit /\ [][PollFaultNext]_vars

\* C17: a request that fails while it issues the restore, and a poll that
\* fails on an operation that is requested or in_progress, leave the stored
\* operation failed with the text of the error.
C17_FailureStoresFailed ==
    [][/\ \A request_body \in DownloadRequests :
             (/\ InitiateDownload(request_body)
              /\ nextId' # nextId
              /\ call'.response.statusCode = 500)
             => /\ downloads'[DownloadId(nextId')].status = "failed"
                /\ Get(downloads'[DownloadId(nextId')], "error", "")
                       = call'.response.body.error
       /\ \A download_id \in DOMAIN downloads, error \in GetItemErrors :
             (/\ GetDownloadStatusFailing(download_id, error)
              /\ downloads[download_id].status \in {"requested", "in_progress"})
             => /\ downloads'[download_id].status = "failed"
                /\ Get(downloads'[download_id], "error", "") = error]_vars

\* the answer is one of the three outcomes of a retrieval: completed with a
\* handle, in_progress with an estimate of the completion, or failed with
\* a diagnostic
IsRetrievalOutcome(c) ==
    LET body == c.response.body
        given == IF "details" \in DOMAIN body THEN body.details @@ body ELSE body
        status == Get(body, "status", "")
    IN  \/ status = "completed" /\ "download_url" \in DOMAIN given
        \/ status = "in_progress" /\ "estimated_completion" \in DOMAIN given
        \/ status = "failed" /\ Get(given, "error", "") # ""

\* C18: a request for a backup that the history holds, and a poll of an
\* operation that the table holds, answer completed with a handle,
\* in_progress with an estimate or failed with a diagnostic, never without
\* a status.
C18_AlwaysOneOutcome ==
    [][/\ \A request_body \in DownloadRequests :
             (InitiateDownload(request_body) /\ Resolves(request_body))
             => IsRetrievalOutcome(call')
       /\ \A download_id \in DOMAIN downloads :
             GetDownloadStatus(download_id) => IsRetrievalOutcome(call')]_vars

(***************************************************************************)
(* The migration when an invocation can end between two of its calls: the  *)
(* Lambda is stopped at its timeout or its container is lost.              *)
(***************************************************************************)
\* the invocation ends where it is and returns nothing
ASB_Crash ==
    /\ apc \in {"download", "upload", "metadata", "delete"}
    /\ apc' = "done"
    /\ archived' = [success |-> FALSE]
    /\ UNCHANGED <<listVars, parallelVars, catVars, cleanupVars, diskVars, batchVars, runVars, cloneVars, pollVars, backupVars, apiVars, storeVars, backup_info,
                   vault_archive, before, runs, vault>>

CrashingNext ==
    \/ ArchiveNext
    \/ ASB_Crash

SpecCrashingArchive == ArchiveInit /\ [][CrashingNext]_vars

\* the archives of the key in the vault
ColdCopies(archives, backup_key) ==
    {i \in 1..Len(archives) :
        archives[i].archiveDescription = "Archived backup: " \o backup_key}

\* the metadata of the key is in the bucket and names an archive of the key
\* that the vault holds
Recorded(bucket, archives, backup_key) ==
    /\ MetadataKey(backup_key) \in DOMAIN bucket
    /\ \E i \in ColdCopies(archives, backup_key) :
          archives[i].archiveId = bucket[MetadataKey(backup_key)].body.archive_id

\* the last invocation was stopped before it returned
Crashed == apc = "done" /\ runs > 0 /\ DOMAIN archived = {"success"}

\* C19: after every step of a migration, failed or stopped between any two
\* of its steps or not, every backup is in the bucket or has an archive in
\* the vault that the metadata in the bucket names; and the step that
\* removes a backup from the bucket finds that metadata already written.
C19_NeverLost ==
    [][\A backup_key \in OldKeys :
          /\ backup_key \in DOMAIN s3' \/ Recorded(s3', vault', backup_key)
          /\ (backup_key \in DOMAIN s3 /\ backup_key \notin DOMAIN s3')
                 => Recorded(s3, vault, backup_key)]_vars

\* a backup has been migrated after an invocation for it was stopped
\* between the upload of its archive and the writing of the metadata
C19_Witness ==
    \E backup_key \in OldKeys :
        /\ backup_key \notin DOMAIN s3
        /\ Recorded(s3, vault, backup_key)
        /\ Cardinality(ColdCopies(vault, backup_key)) = 2
        /\ \E other \in OldKeys :
              other \in DOMAIN s3 /\ Crashed /\ backup_info.key = other
                 /\ ColdCopies(vault, other) # {} /\ MetadataKey(other) \notin DOMAIN s3

\* C20: when an invocation has run to its end with success, after
\* invocations for the same key that were stopped or failed or not, the
\* backup is not in the bucket, the vault holds exactly one archive of it,
\* and the metadata in the bucket names that archive.
C20_OneColdCopyAfterRerun ==
    (apc = "done" /\ archived.success)
    => /\ archived.backup_key \notin DOMAIN s3
       /\ Recorded(s3, vault, archived.backup_key)
       /\ Cardinality(ColdCopies(vault, archived.backup_key)) = 1

(***************************************************************************)
(* glacier_cleanup_handler: cleanup_old_glacier_archives, one metadata     *)
(* object at a time.                                                       *)
(***************************************************************************)
\* GLACIER_RETENTION_YEARS
GlacierRetentionYears == 2

\* line 21: the cutoff, in minutes of the clock
CutoffDate(now) == now - 365 * GlacierRetentionYears * 1440

\* an archived_date in the ISO format, by its instant, and a text that is
\* not in that format
IsoDate(at) == [iso |-> at]

NotIsoDate(text) == [text |-> text]

\* a body that is not JSON
NotJson(raw) == [raw |-> raw]

\* the bodies of the metadata objects: an archive older than the cutoff, one
\* archived exactly at the cutoff, a recent one, one with no date, one with
\* no archive id, one whose date is not in the ISO format, and a body that
\* is not JSON
MetadataBodies(backup_key, archive_id) ==
    LET body == [original_key |-> backup_key, archive_id |-> archive_id, original_size |-> 2048]
    IN  { body @@ [archived_date |-> d] :
            d \in {IsoDate(CutoffDate(8 * 1440 + 605) - 1), IsoDate(CutoffDate(8 * 1440 + 605)),
                   IsoDate(7 * 1440), NotIsoDate("02/11/2022")} }
        \cup { body,
               [original_key |-> backup_key,
                archived_date |-> IsoDate(CutoffDate(8 * 1440 + 605) - 1)],
               NotJson("<html>") }

\* json.loads: the dict, or what it raises
JsonError == "Expecting value: line 1 column 1 (char 0)"

IsJson(body) == "raw" \notin DOMAIN body

\* datetime.fromisoformat: the instant, or what it raises
IsoError(date_string) == "Invalid isoformat string: '" \o date_string.text \o "'"

IsIsoDate(date_string) == "iso" \in DOMAIN date_string

fromisoformat(date_string) == date_string.iso

\* the buckets and the vaults that the cleanup finds: both old backups have
\* been migrated
ArchivedStores ==
    { [s3 |-> (MetadataKey(ColdKey) :> [size |-> 1, storage_class |-> "STANDARD",
                                         restore |-> "none", body |-> b1])
              @@ (MetadataKey(StorageKey("big-repo", "2024-11-02", "10-07")) :>
                      [size |-> 1, storage_class |-> "STANDARD", restore |-> "none",
                       body |-> b2])
              @@ ("archived/README.txt" :> [size |-> 1, storage_class |-> "STANDARD",
                                            restore |-> "none"]),
        vault |-> <<[archiveId |-> "archive-1",
                     archiveDescription |-> "Archived backup: " \o ColdKey, size |-> 2048],
                    [archiveId |-> "archive-2",
                     archiveDescription |-> "Archived backup: "
                         \o StorageKey("big-repo", "2024-11-02", "10-07"), size |-> 2048]>>] :
        b1 \in MetadataBodies(ColdKey, "archive-1"),
        b2 \in MetadataBodies(StorageKey("big-repo", "2024-11-02", "10-07"), "archive-2") }

\* the outcomes of the calls to S3 and Glacier: "" or str(e)
ListOutcomes == {"", "An error occurred (AccessDenied) when calling the ListObjectsV2 operation"}

GetOutcomes == {"", "An error occurred (SlowDown) when calling the GetObject operation"}

DeleteArchiveOutcomes ==
    {"", "An error occurred (ServiceUnavailableException) when calling the DeleteArchive operation"}

\* list_objects_v2 with a prefix: the keys, in their order
RECURSIVE KeysInOrder(_)
KeysInOrder(keys) ==
    IF keys = {} THEN << >>
    ELSE LET first == CHOOSE k \in keys : \A other \in keys \ {k} : StrLess(k, other)
         IN  <<first>> \o KeysInOrder(keys \ {first})

list_objects_v2(bucket, prefix) ==
    KeysInOrder({k \in DOMAIN bucket : SubSeq(k, 1, Len(prefix)) = prefix})

\* str.endswith
endswith(str, suffix) ==
    Len(str) >= Len(suffix) /\ SubSeq(str, Len(str) - Len(suffix) + 1, Len(str)) = suffix

\* glacier_client.delete_archive: the vault without the archive
delete_archive_left_undone(archives, archive_id) == archives
delete_archive(archives, archive_id) ==
    SelectSeq(archives, LAMBDA a : a.archiveId # archive_id)

\* lines 72-115: the visit of one object of the listing: what it raised in
\* the inner and in the outer try, and whether it deleted the archive and
\* the metadata
VisitMetadata(bucket, key, cutoff_date, get, del_archive, del_object) ==
    LET metadata == bucket[key].body
        dated == IsJson(metadata) /\ "archived_date" \in DOMAIN metadata
        old == dated /\ IsIsoDate(metadata.archived_date)
                     /\ fromisoformat(metadata.archived_date) < cutoff_date
        identified == old /\ "archive_id" \in DOMAIN metadata
        Visited(processing, deleting, archive_gone, metadata_gone) ==
            [processing |-> processing, deleting |-> deleting,
             archive_gone |-> archive_gone, metadata_gone |-> metadata_gone]
    IN  IF ~endswith(key, ".metadata.json") THEN Visited("", "", FALSE, FALSE)
        ELSE IF get # "" THEN Visited(get, "", FALSE, FALSE)
        ELSE IF ~IsJson(metadata) THEN Visited(JsonError, "", FALSE, FALSE)
        ELSE IF dated /\ ~IsIsoDate(metadata.archived_date)
          THEN Visited(IsoError(metadata.archived_date), "", FALSE, FALSE)
        ELSE IF ~identified THEN Visited("", "", FALSE, FALSE)
        ELSE IF del_archive # "" THEN Visited("", del_archive, FALSE, FALSE)
        ELSE IF del_object # "" THEN Visited("", del_object, TRUE, FALSE)
        ELSE Visited("", "", TRUE, TRUE)

\* the keys that the loop has still to visit after one whose visit raised
\* or not: the handlers of lines 107 and 112 are inside the loop
Remaining_none_after_error(keys, raised) == IF raised # "" THEN << >> ELSE Tail(keys)

Remaining(keys, raised) == Tail(keys)

\* lines 55-67: the Lambda is invoked and lists the metadata
GC_Start(res) ==
    /\ gpc \in {"idle", "done"}
    /\ before' = [s3 |-> s3, vault |-> vault]
    /\ deleted_archives' = << >>
    /\ IF res = ""
         THEN /\ todo' = list_objects_v2(s3, "archived/")
              /\ errors' = << >>
              /\ gpc' = "visit"
       ELSE /\ todo' = << >>
            /\ errors' = <<"Failed to list archived metadata: " \o res>>
            /\ gpc' = "done"
    /\ UNCHANGED <<listVars, parallelVars, catVars, diskVars, batchVars, runVars, cloneVars, pollVars, backupVars,
                   apiVars, storeVars, apc, backup_info, vault_archive, archived, runs, vault>>

\* lines 70-115: the next object of the listing
GC_Visit(get, del_archive, del_object) ==
    LET key == Head(todo)
        visited == VisitMetadata(s3, key, CutoffDate(clock), get, del_archive, del_object)
        metadata == s3[key].body
    IN  /\ gpc = "visit"
        /\ todo # << >>
        /\ vault' = IF visited.archive_gone THEN delete_archive(vault, metadata.archive_id)
                    ELSE vault
        /\ s3' = IF visited.metadata_gone THEN [k \in DOMAIN s3 \ {key} |-> s3[k]] ELSE s3
        /\ deleted_archives' =
               IF visited.metadata_gone
                 THEN Append(deleted_archives,
                             [archive_id |-> metadata.archive_id,
                              original_key |-> Get(metadata, "original_key", "unknown"),
                              archived_date |-> metadata.archived_date,
                              metadata_key |-> key])
               ELSE deleted_archives
        /\ errors' =
               IF visited.processing # ""
                 THEN Append(errors, "Failed to process metadata " \o key \o ": "
                                         \o visited.processing)
               ELSE IF visited.deleting # ""
                 THEN Append(errors, "Failed to delete archive " \o metadata.archive_id \o ": "
                                         \o visited.deleting)
               ELSE errors
        /\ todo' = Remaining(todo, visited.processing \o visited.deleting)
        /\ UNCHANGED <<listVars, parallelVars, catVars, diskVars, batchVars, runVars, cloneVars, pollVars, backupVars,
                       apiVars, history, apc, backup_info, vault_archive, archived, before, runs,
                       gpc>>

\* lines 122-127: the report
GC_Return ==
    /\ gpc = "visit"
    /\ todo = << >>
    /\ gpc' = "done"
    /\ UNCHANGED <<listVars, parallelVars, catVars, diskVars, batchVars, runVars, cloneVars, pollVars, backupVars,
                   apiVars, storeVars, archiveVars, todo, deleted_archives, errors>>

CleanupReport ==
    [deleted_count |-> Len(deleted_archives), deleted_archives |-> deleted_archives,
     errors |-> errors, cutoff_date |-> CutoffDate(clock)]

CleanupInit ==
    /\ CatIdle
    /\ BackupIdle
    /\ ApiIdle
    /\ CloneIdle
    /\ PollIdle
    /\ OthersIdle
    /\ apc = "idle"
    /\ backup_info = [key |-> ""]
    /\ vault_archive = ""
    /\ archived = [success |-> FALSE]
    /\ before = [s3 |-> << >>, vault |-> << >>]
    /\ runs = 0
    /\ history = << >>
    /\ \E store \in ArchivedStores : s3 = store.s3 /\ vault = store.vault

CleanupNext ==
    \/ \E res \in ListOutcomes : GC_Start(res)
    \/ \E get \in GetOutcomes, del_archive \in DeleteArchiveOutcomes, del_object \in DeleteOutcomes :
          GC_Visit(get, del_archive, del_object)
    \/ GC_Return

SpecCleanup == CleanupInit /\ [][CleanupNext]_vars

(***************************************************************************)
(* Properties of the Glacier cleanup.                                      *)
(***************************************************************************)
\* the metadata objects that the bucket held when the cleanup began
MetadataKeysBefore == {k \in DOMAIN before.s3 : endswith(k, ".metadata.json")}

\* the record is due: it can be read, its archive is older than the cutoff
\* and it names the archive
IsDue(body) ==
    /\ {"archived_date", "archive_id"} \subseteq DOMAIN body
    /\ "iso" \in DOMAIN body.archived_date
    /\ body.archived_date.iso < CutoffDate(clock)

\* the archive that the record names is no longer in the vault
ArchiveGone(body) ==
    /\ "archive_id" \in DOMAIN body
    /\ \A i \in 1..Len(vault) : vault[i].archiveId # body.archive_id

BothDeleted(key) == key \notin DOMAIN s3 /\ ArchiveGone(before.s3[key].body)

\* an error of the report is about the record
Reported(key) ==
    \E i \in 1..Len(errors) :
        \/ Contains(key, errors[i])
        \/ /\ "archive_id" \in DOMAIN before.s3[key].body
           /\ Contains("Failed to delete archive " \o before.s3[key].body.archive_id,
                       errors[i])

Listed == \A i \in 1..Len(errors) : ~Contains("Failed to list", errors[i])

\* C21: when the cleanup has listed the records and returned, every record
\* that was due is deleted with its archive or is the subject of an error
\* of the report, whatever happened to the records before it; and the
\* deleted count of the report is the number of records that are gone from
\* the bucket with their archive gone from the vault.
C21_BatchNeverAborts ==
    (gpc = "done" /\ Listed)
    => /\ \A key \in MetadataKeysBefore :
             IsDue(before.s3[key].body) => (BothDeleted(key) \/ Reported(key))
       /\ \A key \in MetadataKeysBefore :
             ~IsDue(before.s3[key].body) => (key \in DOMAIN s3 /\ s3[key] = before.s3[key])
       /\ CleanupReport.deleted_count
              = Cardinality({key \in MetadataKeysBefore : BothDeleted(key)})

\* the first record of the listing could not be processed and the second
\* has been deleted with its archive
C21_Witness ==
    /\ gpc = "done"
    /\ Len(errors) = 1
    /\ Contains(MetadataKey(StorageKey("big-repo", "2024-11-02", "10-07")), errors[1])
    /\ CleanupReport.deleted_count = 1
    /\ deleted_archives[1].metadata_key = MetadataKey(ColdKey)
    /\ MetadataKey(ColdKey) \notin DOMAIN s3

(***************************************************************************)
(* check_disk_space and cleanup_old_temp_directories.                      *)
(***************************************************************************)
\* the name of the scratch directory of a backup begun at the instant
\* (line 209)
ScratchName(repo_name, at) == repo_name \o "_" \o ToString(at * 60)

\* what /tmp can hold: scratch directories of earlier backups, 61 minutes,
\* one hour and 5 minutes old, a directory of another program, a file and
\* a directory with no underscore in its name
TmpEntries ==
    { [name |-> ScratchName("demo", 8 * 1440 + 605 - 61), is_dir |-> TRUE,
       mtime |-> 8 * 1440 + 605 - 61, size_mb |-> 400],
      [name |-> ScratchName("big-repo", 8 * 1440 + 605 - 60), is_dir |-> TRUE,
       mtime |-> 8 * 1440 + 605 - 60, size_mb |-> 400],
      [name |-> ScratchName("demo", 8 * 1440 + 605 - 5), is_dir |-> TRUE,
       mtime |-> 8 * 1440 + 605 - 5, size_mb |-> 400],
      [name |-> "pip_cache", is_dir |-> TRUE, mtime |-> 1440, size_mb |-> 400],
      [name |-> "core_dump.log", is_dir |-> FALSE, mtime |-> 1440, size_mb |-> 400],
      [name |-> "hsperfdata", is_dir |-> TRUE, mtime |-> 1440, size_mb |-> 400] }

FreeSpaces == {50, 450, 600, 2000}

\* the required_mb of lines 218, 228 and 333
RequiredSpaces == {1000, 500, 100}

\* statvfs: "" or str(e)
StatOutcomes == {"", "[Errno 2] No such file or directory: '/tmp'"}

\* lines 477-486: the directory is removed
IsOldTempDirectory(item, now) ==
    /\ item.is_dir
    /\ Contains("_", item.name)
    /\ now - item.mtime > 60

\* cleanup_old_temp_directories: the entries it leaves; shutil.rmtree fails
\* for the names in failing
cleanup_old_temp_directories(items, now, failing) ==
    {item \in items : ~(IsOldTempDirectory(item, now) /\ item.name \notin failing)}

RECURSIVE SizeOfAll(_)
SizeOfAll(items) ==
    IF items = {} THEN 0
    ELSE LET item == CHOOSE i \in items : TRUE
         IN  item.size_mb + SizeOfAll(items \ {item})

InsufficientText(available_mb, required_mb) ==
    "Insufficient disk space: " \o ToString(available_mb) \o ".0 MB available, "
        \o ToString(required_mb) \o " MB required"

\* check_disk_space: the entries and the free space after it, the free space
\* it measured before and after its cleanup, the number of its cleanups,
\* what the handler of line 458 logged and what the call raised
check_disk_space(items, available_mb, required_mb, now, stat, failing) ==
    LET kept == cleanup_old_temp_directories(items, now, failing)
        after_mb == available_mb + SizeOfAll(items \ kept)
        Checked(found, free, passes, logged) ==
            [entries |-> found, free_mb |-> free, required_mb |-> required_mb,
             before_mb |-> available_mb, after_mb |-> free, passes |-> passes,
             logged |-> logged, raised |-> ""]
    IN  IF stat # "" THEN Checked(items, available_mb, 0, stat)
        ELSE IF available_mb >= required_mb THEN Checked(items, available_mb, 0, "")
        ELSE IF after_mb < required_mb
          THEN Checked(kept, after_mb, 1, InsufficientText(after_mb, required_mb))
        ELSE Checked(kept, after_mb, 1, "")

CheckDiskSpace(required_mb, stat, failing) ==
    LET checked == check_disk_space(entries, free_mb, required_mb, clock, stat, failing)
    IN  /\ entries' = checked.entries
        /\ free_mb' = checked.free_mb
        /\ space' = [x \in DOMAIN checked \ {"entries", "free_mb"} |-> checked[x]]
        /\ UNCHANGED <<listVars, parallelVars, catVars, cleanupVars, batchVars, runVars, cloneVars, pollVars,
                       backupVars, apiVars, storeVars, archiveVars>>

DiskInit ==
    /\ CatIdle
    /\ BackupIdle
    /\ StoreEmpty
    /\ ApiIdle
    /\ ArchiveIdle
    /\ CloneIdle
    /\ PollIdle
    /\ CleanupIdle
    /\ BatchIdle
    /\ RunIdle
    /\ ListIdle
    /\ ParallelIdle
    /\ entries \in SUBSET TmpEntries
    /\ free_mb \in FreeSpaces
    /\ space = [required_mb |-> 0]

DiskNext ==
    \E required_mb \in RequiredSpaces, stat \in StatOutcomes,
       failing \in SUBSET {ScratchName("demo", 8 * 1440 + 605 - 61)} :
        CheckDiskSpace(required_mb, stat, failing)

SpecDisk == DiskInit /\ [][DiskNext]_vars

(***************************************************************************)
(* Properties of the disk check.                                           *)
(***************************************************************************)
\* C22: a call of check_disk_space that could measure the space makes at
\* most one cleanup, and raises exactly when the free space is below the
\* required space both before and after the cleanup.
C22_FailsWhenStillInsufficient ==
    (space.required_mb > 0 /\ space.logged \notin StatOutcomes \ {""})
    => /\ space.passes <= 1
       /\ space.raised # ""
              <=> (space.before_mb < space.required_mb /\ space.after_mb < space.required_mb)

\* the characters of the text are digits
IsDigits(str) ==
    Len(str) > 0 /\ \A i \in 1..Len(str) : Contains(SubSeq(str, i, i), "0123456789")

\* the name is <repository>_<timestamp>
IsScratchName(name) ==
    \E i \in 2..(Len(name) - 1) :
        SubSeq(name, i, i) = "_" /\ IsDigits(SubSeq(name, i + 1, Len(name)))

\* C23: every entry that a call of check_disk_space removes is a directory
\* whose name is <repository>_<timestamp> and which is more than one hour
\* old.
C23_OnlyOldScratchDirectories ==
    [][\A item \in entries \ entries' :
          /\ item.is_dir
          /\ IsScratchName(item.name)
          /\ clock - item.mtime > 60]_vars

(***************************************************************************)
(* Properties of the steps of a backup.                                    *)
(***************************************************************************)
\* backup_single_repository has returned or raised
LeftBackup == pc \in {"lh_complete", "lh_except", "done"} /\ "scratch" \in did

BackupSteps == {"validate", "clone", "compress", "upload"}

\* C24: when backup_single_repository has returned, or has raised at the
\* validation, the clone, the compression or the upload, the removal of the
\* scratch directory has been attempted; whether it removed the directory or
\* not, a backup whose steps succeeded has returned its successful result,
\* and one that failed at a step has raised the error of that step.
C24_CleanupOnEveryExit ==
    LeftBackup
    => /\ "cleanup" \in did
       /\ failedStep \in BackupSteps \cup {"", "audit"}
       /\ pc = "lh_complete" => (result.success /\ failedStep = "")
       /\ (pc = "lh_except" /\ failedStep \in BackupSteps)
             => ~Contains(RmtreeError, error_msg)

\* a backup has returned success though its scratch directory could not be
\* removed
C24_Witness ==
    /\ pc = "done"
    /\ "cleanup" \in did
    /\ Get(outcome, "success", FALSE)
    /\ tmp # {}

\* C25: the compression begins only after the clone, the upload only after
\* the compression and the removal of the clone; a clone or a compression
\* that raises ends the attempt; and an object is written to the bucket only
\* by the upload of an attempt whose clone and compression succeeded.
C25_UploadOnlyAfterCompression ==
    [][/\ \A run \in CloneRuns :
             (BSR_Clone(run[1], run[2], run[3])
              /\ download_repository(event, run[1], run[2], run[3]) # "")
             => pc' = "bsr_except"
       /\ \A res \in ArchiveOutcomes \ {""} : BSR_Compress(res) => pc' = "bsr_except"
       /\ (pc' = "bsr_compress" /\ pc # "bsr_compress") => pc = "bsr_clone"
       /\ (pc' = "bsr_upload" /\ pc # "bsr_upload")
             => (pc = "bsr_compress" /\ "remove_clone" \in did')
       /\ pc = "bsr_except" => (s3' = s3 /\ pc' \in {"bsr_except", "lh_except"})
       /\ s3' # s3
             => /\ pc = "bsr_upload"
                /\ {"clone", "compress", "remove_clone"} \subseteq did
                /\ failedStep = ""]_vars

\* a backup has failed at the compression and the bucket is empty
C25_Witness ==
    /\ pc = "done"
    /\ failedStep = "compress"
    /\ "clone" \in did
    /\ "upload" \notin did
    /\ DOMAIN s3 = {}

\* C26: whatever the writes of the audit events and of the history record
\* do, an invocation whose clone, compression and upload succeeded returns
\* a successful outcome.
C26_AuditNeverFailsBackup ==
    (/\ pc = "done"
     /\ {"clone", "compress", "upload"} \subseteq did
     /\ failedStep \notin BackupSteps)
    => ("success" \in DOMAIN outcome /\ outcome.success)

(***************************************************************************)
(* backup_repositories: the loop over the repositories of a batch.         *)
(***************************************************************************)
MaxBatch == 3

\* the repositories of a batch: one to back up, an archived one, and one
\* whose entry has no clone_url
BatchRepos ==
    { [name |-> "demo", clone_url |-> CloneUrl("demo"), archived |-> FALSE],
      [name |-> "big-repo", clone_url |-> CloneUrl("big-repo")],
      [name |-> "old-repo", clone_url |-> CloneUrl("old-repo"), archived |-> TRUE],
      [name |-> "no-url", archived |-> FALSE] }

RECURSIVE SeqsUpTo(_, _)
SeqsUpTo(set, n) ==
    IF n = 0 THEN {<< >>}
    ELSE LET shorter == SeqsUpTo(set, n - 1)
         IN  shorter \cup { Append(seq, x) : seq \in shorter, x \in set }

\* what backup_single_repository raises for the repository, "" when it
\* returns: line 206 raises KeyError for an entry with no clone_url
SingleOutcomes ==
    {"", "Failed to backup demo: fatal: early EOF",
     "Timeout while backing up demo. Repository may be too large."}

backup_single_repository(repo, res) ==
    IF "clone_url" \notin DOMAIN repo THEN [raised |-> "'clone_url'"]
    ELSE IF res # "" THEN [raised |-> res]
    ELSE [raised |-> "",
          result |-> [repository |-> repo.name, success |-> TRUE,
                      s3_key |-> StorageKey(repo.name, DateStr(clock), TimeStr(clock)),
                      size_bytes |-> 2048]]

\* lines 177-197: what the visit of a repository appends to results
BatchEntry(repo, run) ==
    IF Get(repo, "archived", FALSE)
      THEN [repository |-> repo.name, success |-> FALSE, skipped |-> TRUE,
            reason |-> "archived"]
    ELSE IF run.raised = "" THEN run.result
    ELSE [repository |-> repo.name, success |-> FALSE, error |-> run.raised]

\* the repositories that the loop has still to visit after one whose backup
\* raised or not: the handler of line 191 is inside the loop
LeftAfter_none_after_error(repos, raised) == IF raised # "" THEN << >> ELSE Tail(repos)

LeftAfter(repos, raised) == Tail(repos)

\* lines 176-197: the next repository of the list
BR_Visit(res) ==
    LET repo == Head(left)
        run == backup_single_repository(repo, res)
        entry == BatchEntry(repo, run)
    IN  /\ left # << >>
        /\ results' = Append(results, entry)
        /\ left' = LeftAfter(left, IF "error" \in DOMAIN entry THEN entry.error ELSE "")
        /\ UNCHANGED <<listVars, parallelVars, catVars, cleanupVars, diskVars, runVars, cloneVars, pollVars, backupVars,
                       apiVars, storeVars, archiveVars, repositories>>

BatchInit ==
    /\ CatIdle
    /\ BackupIdle
    /\ StoreEmpty
    /\ ApiIdle
    /\ ArchiveIdle
    /\ CloneIdle
    /\ PollIdle
    /\ CleanupIdle
    /\ DiskIdle
    /\ RunIdle
    /\ ListIdle
    /\ ParallelIdle
    /\ repositories \in SeqsUpTo(BatchRepos, MaxBatch)
    /\ left = repositories
    /\ results = << >>

BatchNext == \E res \in SingleOutcomes : BR_Visit(res)

SpecBatch == BatchInit /\ [][BatchNext]_vars

\* C27: the results are the outcomes of the repositories visited so far,
\* one for each and in the order of the list, and the loop has all the
\* others still to visit, whatever the outcomes so far: when it returns,
\* there is one outcome for every repository of the list.
C27_OneOutcomePerRepository ==
    /\ Len(results) + Len(left) = Len(repositories)
    /\ left = SubSeq(repositories, Len(results) + 1, Len(repositories))
    /\ \A i \in 1..Len(results) :
          /\ results[i].repository = repositories[i].name
          /\ results[i].success \in BOOLEAN
          /\ Get(repositories[i], "archived", FALSE) <=> "skipped" \in DOMAIN results[i]

\* the loop has returned; the backup of the first repository had failed and
\* the one of the second has succeeded
C27_Witness ==
    /\ left = << >>
    /\ Len(results) >= 2
    /\ "error" \in DOMAIN results[1]
    /\ results[2].success

(***************************************************************************)
(* download_repository: the commands it runs.                              *)
(***************************************************************************)
\* x < n for a number x and an int n
LessThan(x, n) == IF x.type = "float" THEN x.twice < 2 * n ELSE x.value < n

\* str(e) of the TypeError of x < n for an x that is not a number
NotComparable(x) ==
    "'<' not supported between instances of '" \o x.type \o "' and 'int'"

\* line 345: the timeout of the full clone, or what the comparison raises
FullTimeout(repo_size_kb) ==
    IF ~IsIntOrFloat(repo_size_kb) THEN [raised |-> NotComparable(repo_size_kb)]
    ELSE [raised |-> "",
          timeout |-> IF LessThan(repo_size_kb, SizeThreshold) THEN 900 ELSE 1200]

\* lines 332-340: what leaves the try around the disk check and the fetch of
\* the full history: its handler catches every Exception
UnshallowRaised_when_it_times_out(raised) == IF raised = "timeout" THEN raised ELSE ""

UnshallowRaised(raised) == ""

Git(command, timeout) == [git |-> command, timeout |-> timeout]

\* the repositories that are cloned
RunInfos ==
    { [name |-> "demo", clone_url |-> CloneUrl("demo"), size |-> x] :
        x \in {PyInt(50000), PyInt(500000), PyFloat(2 * SizeThreshold + 1), PyStr("unknown"),
               PyNone} }
    \cup { [name |-> "demo", clone_url |-> CloneUrl("demo")] }

\* download_repository from line 309 on: the git commands it ran with their
\* timeouts, the free space that its disk check found, and str(e) of what
\* it raised
RunDownload(repo_info, shallow, available_mb, unshallow, full, valid) ==
    LET repo_size_kb == Get(repo_info, "size", PyInt(0))
        limits == CloneTimeouts(repo_info)
        shallow_clone == Git("clone --depth 1 --mirror", limits.shallow_timeout)
        fetch == Git("fetch --unshallow", limits.unshallow_timeout)
        rev_parse == Git("rev-parse --git-dir", 0)
        checked == check_disk_space({}, available_mb, 100, clock, "", {})
        full_timeout == FullTimeout(repo_size_kb)
        Ran(commands, raised) ==
            [commands |-> commands, raised |-> raised, shallow |-> shallow,
             unshallow |-> unshallow, full |-> full, valid |-> valid,
             headroom_mb |-> IF shallow = "ok" THEN checked.after_mb ELSE 0 - 1]
        Verified(commands) ==
            Ran(Append(commands, rev_parse),
                IF valid THEN ""
                ELSE "Unexpected error cloning " \o repo_info.name
                     \o ": Cloned directory is not a valid Git repository: /tmp/"
                     \o repo_info.name)
    IN  IF shallow = "ok"
          THEN IF checked.raised # "" THEN Verified(<<shallow_clone>>)
               ELSE IF unshallow = "ok" \/ UnshallowRaised(unshallow) = ""
                 THEN Verified(<<shallow_clone, fetch>>)
               ELSE Ran(<<shallow_clone, fetch>>, TimeoutText(repo_info))
        ELSE IF shallow = "timeout" THEN Ran(<<shallow_clone>>, TimeoutText(repo_info))
        ELSE IF full_timeout.raised # ""
          THEN Ran(<<shallow_clone>>,
                   "Unexpected error cloning " \o repo_info.name \o ": " \o full_timeout.raised)
        ELSE LET full_clone == Git("clone --mirror", full_timeout.timeout)
             IN  IF full = "ok" THEN Verified(<<shallow_clone, full_clone>>)
                 ELSE IF full = "timeout"
                   THEN Ran(<<shallow_clone, full_clone>>, TimeoutText(repo_info))
                 ELSE Ran(<<shallow_clone, full_clone>>, CloneErrorText(repo_info, full))

DownloadRepository(shallow, available_mb, unshallow, full, valid) ==
    /\ ran.commands = << >>
    /\ ran' = RunDownload(cloned, shallow, available_mb, unshallow, full, valid)
    /\ UNCHANGED <<listVars, parallelVars, catVars, cleanupVars, diskVars, batchVars, backupVars, storeVars, apiVars,
                   archiveVars, pollVars, cloneVars>>

NextRun ==
    /\ ran.commands # << >>
    /\ cloned' \in RunInfos
    /\ ran' = [commands |-> << >>]
    /\ UNCHANGED <<listVars, parallelVars, catVars, cleanupVars, diskVars, batchVars, backupVars, storeVars, apiVars,
                   archiveVars, pollVars, timeouts>>

\* the runs of the commands: the fetch is run after a shallow clone that
\* succeeded, the full clone after one that failed
GitRuns ==
    { <<"ok", unshallow, "ok", valid>> : unshallow \in GitOutcomes, valid \in BOOLEAN }
    \cup { <<shallow, "ok", full, valid>> :
             shallow \in GitOutcomes \ {"ok"}, full \in GitOutcomes, valid \in BOOLEAN }

RunInit ==
    /\ CatIdle
    /\ BackupIdle
    /\ StoreEmpty
    /\ ApiIdle
    /\ ArchiveIdle
    /\ PollIdle
    /\ OthersIdle
    /\ cloned \in RunInfos
    /\ timeouts = << >>

RunNext ==
    \/ \E run \in GitRuns, available_mb \in FreeSpaces :
          DownloadRepository(run[1], available_mb, run[2], run[3], run[4])
    \/ NextRun

SpecRun == RunInit /\ [][RunNext]_vars

(***************************************************************************)
(* Properties of the clone.                                                *)
(***************************************************************************)
HasRun(command) == \E i \in 1..Len(ran.commands) : ran.commands[i].git = command

\* C28: when the shallow clone has failed, by a non-zero exit or by a
\* timeout, a full mirror clone has been run, with a timeout longer than
\* the one of the shallow clone, whatever the size hint.
C28_FullCloneAfterShallowFailure ==
    (ran.commands # << >> /\ ran.shallow # "ok")
    => \E i \in 1..Len(ran.commands) :
          /\ ran.commands[i].git = "clone --mirror"
          /\ ran.commands[i].timeout > ran.commands[1].timeout

\* C29: the fetch of the full history is run only after a disk check that
\* found the 100 MB of headroom.
C29_UnshallowOnlyWithHeadroom ==
    (ran.commands # << >> /\ HasRun("fetch --unshallow")) => ran.headroom_mb >= 100

\* C30: after a shallow clone that succeeded, whether the fetch of the full
\* history succeeded, failed, timed out or was not run, the clone is
\* verified and download_repository raises nothing when the verification
\* passes.
C30_UpgradeNeverFailsClone ==
    (ran.commands # << >> /\ ran.shallow = "ok")
    => /\ HasRun("rev-parse --git-dir")
       /\ ran.valid => ran.raised = ""

\* the fetch of the full history has timed out and download_repository has
\* returned
C30_Witness ==
    /\ ran.commands # << >>
    /\ ran.shallow = "ok"
    /\ ran.unshallow = "timeout"
    /\ HasRun("fetch --unshallow")
    /\ ran.valid
    /\ ran.raised = ""

(***************************************************************************)
(* The category of a failed clone: what download_repository raised is      *)
(* re-raised by backup_single_repository and categorized by the handler of *)
(* lambda_handler.                                                         *)
(***************************************************************************)
\* the error_category lambda_handler computes at line 125 for what
\* download_repository raised
CategoryOfRaised(repo, raised) == categorize_error(BackupErrorText(repo, raised))

IsClone(command) == command.git \in {"clone --depth 1 --mirror", "clone --mirror"}

\* a clone call of the run has exceeded its timeout
CloneTimedOut ==
    \/ ran.shallow = "timeout"
    \/ HasRun("clone --mirror") /\ ran.full = "timeout"

NamedCategories == {"DISK_SPACE", "AUTHENTICATION", "REPOSITORY_ACCESS", "TIMEOUT"}

\* C32: when backup_single_repository re-raises a failure of one of its
\* steps, the text it raises is categorized as the failure itself is, for a
\* failure of category DISK_SPACE, AUTHENTICATION, REPOSITORY_ACCESS or
\* TIMEOUT.
C32_CategoryOfUnderlyingFailure ==
    [][(pc = "bsr_except" /\ pc' = "lh_except" /\ categorize_error(error_msg) \in NamedCategories)
       => categorize_error(error_msg') = categorize_error(error_msg)]_vars

(***************************************************************************)
(* archival_handler.list_backups_to_archive: the listing of the backups    *)
(* older than the retention period.                                        *)
(***************************************************************************)
\* int() of a string of decimal digits
RECURSIVE ParseInt(_)
ParseInt(digits) ==
    IF digits = "" THEN 0
    ELSE 10 * ParseInt(SubSeq(digits, 1, Len(digits) - 1))
         + (IndexIn(SubSeq(digits, Len(digits), Len(digits)), "0123456789") - 1)

AllDigits(str) == \A i \in 1..Len(str) : IndexIn(SubSeq(str, i, i), "0123456789") > 0

IsLeap(year) == (year % 4 = 0 /\ year % 100 # 0) \/ year % 400 = 0

DaysInMonth(year, month) ==
    IF month = 2 THEN (IF IsLeap(year) THEN 29 ELSE 28)
    ELSE IF month \in {4, 6, 9, 11} THEN 30 ELSE 31

RECURSIVE DaysBeforeMonth(_, _)
DaysBeforeMonth(year, month) ==
    IF month = 1 THEN 0
    ELSE DaysBeforeMonth(year, month - 1) + DaysInMonth(year, month - 1)

\* the leap years before a year
LeapsBefore(year) == ((year - 1) \div 4) - ((year - 1) \div 100) + ((year - 1) \div 400)

\* a datetime as an instant of the clock: minutes since 2025-01-01 00:00
Instant(year, month, day, hour, minute) ==
    (365 * (year - 2025) + LeapsBefore(year) - LeapsBefore(2025)
        + DaysBeforeMonth(year, month) + day - 1) * 1440 + hour * 60 + minute

\* datetime.strptime(str, '%Y-%m-%d-%H-%M') when fields is 5 and
\* datetime.strptime(str, '%Y-%m-%d') when it is 3: the year has four digits,
\* the other fields one or two, every field is in its range and nothing is
\* left over; ok is FALSE where strptime raises ValueError
strptime(str, fields) ==
    LET parts == split(str, "-")
        Num(i) == ParseInt(parts[i])
        wellFormed ==
            /\ Len(parts) = fields
            /\ \A i \in 1..fields : parts[i] # "" /\ AllDigits(parts[i])
            /\ Len(parts[1]) = 4
            /\ \A i \in 2..fields : Len(parts[i]) <= 2
        inRange ==
            /\ Num(1) >= 1
            /\ Num(2) \in 1..12
            /\ Num(3) \in 1..DaysInMonth(Num(1), Num(2))
            /\ fields = 5 => (Num(4) \in 0..23 /\ Num(5) \in 0..59)
    IN  IF wellFormed /\ inRange
          THEN [ok |-> TRUE,
                at |-> Instant(Num(1), Num(2), Num(3),
                               IF fields = 5 THEN Num(4) ELSE 0,
                               IF fields = 5 THEN Num(5) ELSE 0)]
        ELSE [ok |-> FALSE]

\* str.replace(old, ""): every occurrence of old is removed
RECURSIVE remove(_, _)
remove(str, old) ==
    LET at == {i \in 1..(Len(str) - Len(old) + 1) : SubSeq(str, i, i + Len(old) - 1) = old}
    IN  IF at = {} THEN str
        ELSE LET i == CHOOSE x \in at : \A y \in at : x <= y
             IN  SubSeq(str, 1, i - 1) \o remove(SubSeq(str, i + Len(old), Len(str)), old)

\* lines 75-92: the date of a backup, from the name of its file or, when
\* that raises ValueError, from LastModified
BackupDate(backup_filename, last_modified) ==
    LET filename_without_ext == remove(backup_filename, ".tar.gz")
        parsed == IF Len(filename_without_ext) >= 16
                    THEN strptime(SubSeq(filename_without_ext, 1, 16), 5)
                  ELSE strptime(SubSeq(filename_without_ext, 1,
                                       IF Len(filename_without_ext) < 10
                                         THEN Len(filename_without_ext) ELSE 10), 3)
    IN  IF parsed.ok THEN parsed.at ELSE last_modified

\* timedelta(days=retention_days), in minutes
RetentionMinutes(retention_days) == retention_days * 1440

\* lines 54-112, with datetime.now() = now: the entries of the backups to
\* archive, in the order of the listing
list_backups_to_archive(bucket, retention_days, now) ==
    LET cutoff_date == now - RetentionMinutes(retention_days)
        Entry(key) ==
            LET key_parts == split(key, "/")
                backup_date == BackupDate(key_parts[3], bucket[key].last_modified)
            IN  [key |-> key, repository_name |-> key_parts[2],
                 backup_filename |-> key_parts[3], size |-> bucket[key].size,
                 date |-> IsoDate(backup_date),
                 last_modified |-> IsoDate(bucket[key].last_modified),
                 age_days |-> (now - backup_date) \div 1440]
        Old(key) ==
            /\ endswith(key, ".tar.gz")
            /\ Len(split(key, "/")) >= 3
            /\ BackupDate(split(key, "/")[3], bucket[key].last_modified) < cutoff_date
        selected == SelectSeq(list_objects_v2(bucket, "nightly/"), Old)
    IN  [i \in 1..Len(selected) |-> Entry(selected[i])]

\* the instant a file name <YYYY-MM-DD-HH-MM> stands for
At(name) == strptime(name, 5).at

\* what the bucket can hold under nightly/: backups 68 days old, exactly 30
\* days old at 9 January 10:05, one minute older than that and one day old,
\* archives whose name holds no date (an old and a recent one), a backup
\* named by its date only, the json of an old backup, and an old backup
\* that the bucket holds in the class GLACIER
ListedObjects ==
    LET Obj(key, at, class) ==
            [key |-> key, last_modified |-> at, size |-> 2048, storage_class |-> class,
             restore |-> "none"]
    IN  { Obj("nightly/demo/2024-11-02-10-05.tar.gz", At("2024-11-02-10-05"), "STANDARD_IA"),
          Obj("nightly/demo/2024-12-10-10-05.tar.gz", At("2024-12-10-10-05"), "STANDARD_IA"),
          Obj("nightly/demo/2024-12-10-10-04.tar.gz", At("2024-12-10-10-04"), "STANDARD_IA"),
          Obj("nightly/demo/2025-01-08-10-05.tar.gz", At("2025-01-08-10-05"), "STANDARD_IA"),
          Obj("nightly/big-repo/latest.tar.gz", At("2024-11-02-10-07"), "STANDARD_IA"),
          Obj("nightly/big-repo/backup-2025-01-08.tar.gz", At("2025-01-08-10-07"), "STANDARD_IA"),
          Obj("nightly/big-repo/2024-11-03.tar.gz", At("2024-11-03-10-07"), "STANDARD_IA"),
          Obj("nightly/demo/2024-11-02-10-05.metadata.json", At("2024-11-02-10-05"), "STANDARD"),
          Obj("nightly/big-repo/2024-11-02-10-07.tar.gz", At("2024-11-02-10-07"), "GLACIER") }

\* RETENTION_DAYS, 30 when unset, or the retention_days_override of the event
RetentionDays == {30, 7}

Buckets ==
    { [key \in {o.key : o \in objs} |-> CHOOSE o \in objs : o.key = key] :
        objs \in SUBSET ListedObjects }

\* lambda_handler with the action 'list'
ListBackups(retention_days) ==
    /\ ~listed.done
    /\ listed' = [done |-> TRUE, retention_days |-> retention_days,
                  backups |-> list_backups_to_archive(s3, retention_days, clock)]
    /\ UNCHANGED <<parallelVars, catVars, cleanupVars, diskVars, batchVars, runVars, backupVars, storeVars,
                   apiVars, archiveVars, cloneVars, pollVars>>

\* the next run of the archival, on another bucket at another time
NextListing ==
    /\ listed.done
    /\ listed' = [done |-> FALSE]
    /\ clock' \in ClockInstants
    /\ s3' \in Buckets
    /\ UNCHANGED <<parallelVars, catVars, cleanupVars, diskVars, batchVars, runVars, cloneVars, pollVars,
                   apiVars, archiveVars, history, pc, event, date_str, temp_dir, error_msg,
                   failedStep, result, did, outcome, startedAt, invocations, completed, tmp>>

ListInit ==
    /\ CatIdle
    /\ BackupIdle
    /\ ApiIdle
    /\ ArchiveIdle
    /\ CloneIdle
    /\ PollIdle
    /\ OthersIdle
    /\ history = << >>
    /\ s3 \in Buckets

ListNext ==
    \/ \E retention_days \in RetentionDays : ListBackups(retention_days)
    \/ NextListing

SpecList == ListInit /\ [][ListNext]_vars

(***************************************************************************)
(* Properties of the listing.                                              *)
(***************************************************************************)
IsHotTier(obj) == obj.storage_class \notin {"GLACIER", "DEEP_ARCHIVE"}

\* the capture date of an object: the date-time of its file name, or the
\* date of a name that holds the date only; the last-modified time when the
\* name holds neither
CaptureDate(key) ==
    LET parts == split(key, "/")
        name == parts[Len(parts)]
        stem == SubSeq(name, 1, Len(name) - 7)
    IN  IF Len(stem) >= 16 /\ strptime(SubSeq(stem, 1, 16), 5).ok
          THEN strptime(SubSeq(stem, 1, 16), 5).at
        ELSE IF strptime(stem, 3).ok THEN strptime(stem, 3).at
        ELSE s3[key].last_modified

\* the keys that the listing is to select for a threshold in days
DueForArchive(days) ==
    { key \in DOMAIN s3 :
        /\ SubSeq(key, 1, 8) = "nightly/"
        /\ endswith(key, ".tar.gz")
        /\ IsHotTier(s3[key])
        /\ CaptureDate(key) < clock - days * 1440 }

ListedKeys == { listed.backups[i].key : i \in 1..Len(listed.backups) }

\* C33: the listing holds exactly the archives under nightly/ that are in
\* the hot tier and whose capture date is before the threshold.
C33_ListsOldHotArchives ==
    listed.done => ListedKeys = DueForArchive(listed.retention_days)

(***************************************************************************)
(* Properties of the purge of the expired archives.                        *)
(***************************************************************************)
MetadataKeys == {k \in DOMAIN s3 : endswith(k, ".metadata.json")}

\* the archives of the vault that a record of the bucket names
NamedBy(key) ==
    IF "body" \in DOMAIN s3[key] /\ IsJson(s3[key].body) /\ "archive_id" \in DOMAIN s3[key].body
      THEN {s3[key].body.archive_id}
    ELSE {}

ArchiveIds(archives) == {archives[i].archiveId : i \in 1..Len(archives)}

\* C34: a step of the cleanup removes a record only when the record is due
\* and the archive it names has left the vault; it removes an archive only
\* when a due record names it; and it leaves every record that is not due
\* as it was.
C34_RecordOnlyAfterColdDeletion ==
    [][/\ \A key \in MetadataKeys :
             /\ key \notin DOMAIN s3'
                   => /\ IsDue(s3[key].body)
                      /\ NamedBy(key) \cap ArchiveIds(vault') = {}
             /\ ~(IsJson(s3[key].body) /\ IsDue(s3[key].body))
                   => /\ key \in DOMAIN s3'
                      /\ s3'[key] = s3[key]
       /\ \A id \in ArchiveIds(vault) \ ArchiveIds(vault') :
             \E key \in MetadataKeys :
                 IsJson(s3[key].body) /\ IsDue(s3[key].body) /\ id \in NamedBy(key)]_vars

\* the deletion of the archive of a due record has failed and the record is
\* still in the bucket, while the other record was deleted with its archive
C34_Witness ==
    /\ gpc = "done"
    /\ Len(errors) = 1
    /\ Contains("Failed to delete archive archive-1", errors[1])
    /\ MetadataKey(ColdKey) \in DOMAIN s3
    /\ "archive-1" \in ArchiveIds(vault)
    /\ Len(deleted_archives) = 1
    /\ "archive-2" \notin ArchiveIds(vault)

(***************************************************************************)
(* Properties of a request that finds a restore pending.                   *)
(***************************************************************************)
\* the operations of the table that sent the restore request of the object
IssuedRestoreOf(key) ==
    { d \in DOMAIN downloads :
        /\ "details" \in DOMAIN downloads[d]
        /\ {"restore_tier", "s3_key"} \subseteq DOMAIN downloads[d].details
        /\ downloads[d].details.s3_key = key }

MaxParallel == 2

MaxSeconds == 1

MaxHours == 1

Workers == 1..MaxParallel

\* line 209: f"{repo_name}_{int(datetime.now().timestamp())}", the name of
\* temp_dir in /tmp
TempName(repo_name, at, second) == repo_name \o "_" \o ToString(at * 60 + second)

NotRunning == [temp_dir |-> "", stage |-> "idle"]

\* os.makedirs(path, exist_ok=True), and the creation of an entry in the
\* directory: the directory is there and, when it was not, it is new
makedirs(items, name, now) ==
    IF \E item \in items : item.name = name THEN items
    ELSE items \cup {[name |-> name, is_dir |-> TRUE, mtime |-> now, size_mb |-> 0]}

\* shutil.rmtree(path) under os.path.exists(path) (lines 287-289)
rmtree(items, name) == {item \in items : item.name # name}

\* lines 209-218: a backup begins: it names and creates its scratch
\* directory and checks the disk
PB_Begin(worker, repo_name, available_mb) ==
    LET temp_name == TempName(repo_name, clock, seconds)
        checked == check_disk_space(makedirs(entries, temp_name, clock), available_mb, 1000,
                                    clock, "", {})
    IN  /\ running[worker] = NotRunning
        /\ running' = [running EXCEPT ![worker] = [temp_dir |-> temp_name, stage |-> "begun"]]
        /\ entries' = checked.entries
        /\ free_mb' = checked.free_mb
        /\ UNCHANGED <<listVars, catVars, cleanupVars, batchVars, runVars, cloneVars, pollVars,
                       backupVars, apiVars, storeVars, archiveVars, space, seconds>>

\* lines 225-228: the clone into the scratch directory, which git creates
\* when it is not there, and the disk check before the compression
PB_Clone(worker, available_mb) ==
    LET temp_name == running[worker].temp_dir
        checked == check_disk_space(makedirs(entries, temp_name, clock), available_mb, 500,
                                    clock, "", {})
    IN  /\ running[worker].stage = "begun"
        /\ running' = [running EXCEPT ![worker].stage = "cloned"]
        /\ entries' = checked.entries
        /\ free_mb' = checked.free_mb
        /\ UNCHANGED <<listVars, catVars, cleanupVars, batchVars, runVars, cloneVars, pollVars,
                       backupVars, apiVars, storeVars, archiveVars, space, seconds>>

\* lines 231-292: the archive, the upload and the finally clause, which
\* removes the scratch directory
PB_End(worker) ==
    /\ running[worker].stage = "cloned"
    /\ running' = [running EXCEPT ![worker] = NotRunning]
    /\ entries' = rmtree(entries, running[worker].temp_dir)
    /\ UNCHANGED <<listVars, catVars, cleanupVars, batchVars, runVars, cloneVars, pollVars,
                   backupVars, apiVars, storeVars, archiveVars, space, seconds, free_mb>>

\* the next second
PB_Tick ==
    /\ seconds < MaxSeconds
    /\ seconds' = seconds + 1
    /\ UNCHANGED <<listVars, catVars, cleanupVars, diskVars, batchVars, runVars, cloneVars,
                   pollVars, backupVars, apiVars, storeVars, archiveVars, running>>

\* more than an hour passes while no backup runs
PB_Later ==
    /\ \A worker \in Workers : running[worker] = NotRunning
    /\ clock < 8 * 1440 + 605 + 61 * MaxHours
    /\ clock' = clock + 61
    /\ seconds' = 0
    /\ UNCHANGED <<listVars, catVars, cleanupVars, diskVars, batchVars, runVars, cloneVars,
                   pollVars, apiVars, storeVars, archiveVars, running, pc, event, date_str,
                   temp_dir, error_msg, failedStep, result, did, outcome, startedAt,
                   invocations, completed, tmp>>

ParallelInit ==
    /\ CatIdle
    /\ BackupIdle
    /\ StoreEmpty
    /\ ApiIdle
    /\ ArchiveIdle
    /\ CloneIdle
    /\ PollIdle
    /\ CleanupIdle
    /\ BatchIdle
    /\ RunIdle
    /\ ListIdle
    /\ entries \in SUBSET {item \in TmpEntries : item.name # "core_dump.log"}
    /\ free_mb \in FreeSpaces
    /\ space = [required_mb |-> 0]
    /\ running = [worker \in Workers |-> NotRunning]
    /\ seconds = 0

ParallelNext ==
    \/ \E worker \in Workers, repo_name \in RepoNames, available_mb \in FreeSpaces :
          PB_Begin(worker, repo_name, available_mb)
    \/ \E worker \in Workers, available_mb \in FreeSpaces : PB_Clone(worker, available_mb)
    \/ \E worker \in Workers : PB_End(worker)
    \/ PB_Tick
    \/ PB_Later

SpecParallel == ParallelInit /\ [][ParallelNext]_vars

(***************************************************************************)
(* Properties of the scratch directories.                                  *)
(***************************************************************************)
Names(items) == {item.name : item \in items}

\* C36: after every step no two running backups have the same scratch
\* directory, and no step of a backup removes the scratch directory of
\* another backup that is running.
C36_PrivateScratchDirectory ==
    [][/\ \A v, w \in Workers :
             (v # w /\ running'[v] # NotRunning) => running'[v].temp_dir # running'[w].temp_dir
       /\ \A w \in Workers :
             (running[w] # NotRunning /\ running'[w] = running[w]
                /\ running[w].temp_dir \in Names(entries))
             => running[w].temp_dir \in Names(entries')]_vars

(***************************************************************************)
(* Properties of the stored backups and their records.                     *)
(***************************************************************************)
\* C37: no step of a successful backup changes or removes a record of the
\* history table or an object of the bucket that was there before, the
\* upload stores its archive under a key that was free, and the backup
\* that completes adds a record to the history table.
C37_RecordsAreAppendOnly ==
    [][/\ \A k \in DOMAIN history : k \in DOMAIN history' /\ history'[k] = history[k]
       /\ \A k \in DOMAIN s3 : k \in DOMAIN s3' /\ s3'[k] = s3[k]
       /\ (pc = "bsr_upload" /\ pc' = "lh_complete") => DOMAIN s3' # DOMAIN s3
       /\ (pc = "lh_complete" /\ pc' = "done") => DOMAIN history' # DOMAIN history]_vars

(***************************************************************************)
(* The retrieval of backups that the archival Lambda migrates when they    *)
(* are older than the retention period.                                    *)
(***************************************************************************)
MaxMonths == 1

\* the bucket as list_objects_v2 reports it: a backup was last modified
\* when it was uploaded, the minute that its key names
Uploaded(bucket) ==
    [k \in DOMAIN bucket |->
        bucket[k] @@ [last_modified |-> BackupDate(split(k, "/")[Len(split(k, "/"))], 0)]]

\* the archival of one backup of the listing (the Map state of the state
\* machine runs archive_single_backup on every entry of the listing)
ArchiveListed(retention_days) ==
    LET backups == list_backups_to_archive(Uploaded(s3), retention_days, clock)
    IN  \E i \in 1..Len(backups) : MigrateBackup(backups[i])

\* a month passes
MonthPasses ==
    /\ clock < 8 * 1440 + 605 + 31 * 1440 * MaxMonths
    /\ clock' = clock + 31 * 1440
    /\ UNCHANGED <<listVars, parallelVars, catVars, cleanupVars, diskVars, batchVars, runVars,
                   cloneVars, pollVars, apiVars, storeVars, archiveVars, pc, event, date_str,
                   temp_dir, error_msg, failedStep, result, did, outcome, startedAt,
                   invocations, completed, tmp>>

\* the retrieval, the archival with the retention of 30 days and the months
TieringNext ==
    \/ \E request_body \in DownloadRequests : InitiateDownload(request_body)
    \/ \E download_id \in DOMAIN downloads \cup {"", DownloadId(0)} :
          GetDownloadStatus(download_id)
    \/ \E key \in DOMAIN s3 : RestoreCompletes(key)
    \/ ArchiveListed(30)
    \/ MonthPasses

SpecTiering == RetrievalInit /\ [][TieringNext]_vars

(***************************************************************************)
(* Properties of the retrieval of migrated backups.                        *)
(***************************************************************************)
\* the backup was migrated: its metadata is in the bucket and its object is
\* not
IsMigrated(key) == key \notin DOMAIN s3 /\ MetadataKey(key) \in DOMAIN s3

\* C38: a request for a backup that was migrated is answered as a delayed
\* retrieval, and every handle that a call issues names an object that the
\* bucket holds at that time.
C38_RetrievalFollowsTier ==
    [][/\ \A request_body \in DownloadRequests :
             (/\ InitiateDownload(request_body)
              /\ Resolves(request_body)
              /\ IsMigrated(StoredBackup(request_body).s3_key)
              /\ call'.response.statusCode = 200)
             => call'.response.body.download_type = "glacier_retrieval"
       /\ <<downloads, nextId, call, prev>>' # <<downloads, nextId, call, prev>>
             => \A i \in 1..Len(call'.urls) : call'.urls[i].Key \in DOMAIN s3']_vars

\* ---------------------------------------------------------------------------
\* C39: the result lambda_handler returns has success = TRUE exactly when the
\* archive of this invocation was uploaded: once the upload has succeeded,
\* no later step (the 'completed' audit event, the history record) turns the
\* result into success = FALSE.
C39_SuccessFollowsUpload ==
    (pc = "done" /\ "success" \in DOMAIN outcome)
        => (outcome.success <=> ("upload" \in did /\ failedStep # "upload"))

\* an invocation that returned success = FALSE although its archive was uploaded
C39_Counterexample ==
    ~ (pc = "done" /\ "success" \in DOMAIN outcome /\ ~outcome.success
       /\ "upload" \in did /\ failedStep = "audit")

====
